---------------------------- MODULE Spec2Model ----------------------------
(***************************************************************************)
(* Location resolution engine of the weather back end.                     *)
(*                                                                         *)
(* One call of GeocodingService.resolveLocation is modelled as a process   *)
(* that advances from one awaited provider request to the next; the        *)
(* provider's answer to each request is chosen nondeterministically.  The  *)
(* call ends by returning a location or by throwing, and the route's       *)
(* caller-side handling (errorHandler) turns that into an HTTP status.     *)
(*                                                                         *)
(* Representation of JavaScript values:                                    *)
(*   - a JS string is a sequence of one-character strings; the degree,     *)
(*     prime and double-prime signs are the tokens "deg", "prime" and      *)
(*     "dprime"; the empty sequence also stands for a missing (undefined)  *)
(*     string field, both being falsy in the code;                         *)
(*   - a JS number is a record [t, v]: t = "number" with v counted in      *)
(*     units of 10^-FracDigits, or t = "NaN", or t = "undefined" for a     *)
(*     missing numeric field;                                              *)
(*   - enum-like strings (type hints, resolvedBy, pc) are TLA+ strings.    *)
(***************************************************************************)
EXTENDS Integers, Sequences, FiniteSets, TLC

(***************************************************************************)
(* Bounds of the model.                                                    *)
(***************************************************************************)
\* fractional decimal digits kept by the fixed-point representation
FracDigits == 2
\* largest number of hits a provider answer carries in the model
MaxHits == 2
\* longest string the helpers are applied to exhaustively
MaxLen == 4

RECURSIVE Pow10(_)
Pow10(n) == IF n = 0 THEN 1 ELSE 10 * Pow10(n - 1)

Scale == Pow10(FracDigits)

\* F applied to the value v: names an intermediate value of a computation
With(v, F(_)) == F(v)

(***************************************************************************)
(* JavaScript numbers.                                                     *)
(***************************************************************************)
Num(v) == [t |-> "number", v |-> v]
NaN == [t |-> "NaN", v |-> 0]
Undefined == [t |-> "undefined", v |-> 0]

IsNumber(x) == x.t = "number"

\* a < b and a > b of JavaScript: false as soon as an operand is NaN
\* (undefined converts to NaN)
JsLt(a, b) == IsNumber(a) /\ IsNumber(b) /\ a.v < b.v
JsGt(a, b) == IsNumber(a) /\ IsNumber(b) /\ a.v > b.v

Deg(n) == Num(n * Scale)
\* n tenths of a degree
Tenths(n) == Num((n * Scale) \div 10)

(***************************************************************************)
(* JavaScript strings.                                                     *)
(***************************************************************************)
Digits == {"0", "1", "2", "3", "4", "5", "6", "7", "8", "9"}
IsDigit(c) == c \in Digits
IsSpace(c) == c \in {" ", "\t"}

DigitVal(c) ==
  CASE c = "0" -> 0 [] c = "1" -> 1 [] c = "2" -> 2 [] c = "3" -> 3
    [] c = "4" -> 4 [] c = "5" -> 5 [] c = "6" -> 6 [] c = "7" -> 7
    [] c = "8" -> 8 [] c = "9" -> 9

DigitChar(d) == <<"0", "1", "2", "3", "4", "5", "6", "7", "8", "9">>[d + 1]

\* character of s at position i, or "" past the end
At(s, i) == IF i >= 1 /\ i <= Len(s) THEN s[i] ELSE ""

\* String.prototype.toLowerCase / toUpperCase on the letters of the model
LowerChar(c) ==
  CASE c = "A" -> "a" [] c = "B" -> "b" [] c = "C" -> "c" [] c = "D" -> "d"
    [] c = "E" -> "e" [] c = "F" -> "f" [] c = "G" -> "g" [] c = "H" -> "h"
    [] c = "I" -> "i" [] c = "J" -> "j" [] c = "K" -> "k" [] c = "L" -> "l"
    [] c = "M" -> "m" [] c = "N" -> "n" [] c = "O" -> "o" [] c = "P" -> "p"
    [] c = "Q" -> "q" [] c = "R" -> "r" [] c = "S" -> "s" [] c = "T" -> "t"
    [] c = "U" -> "u" [] c = "V" -> "v" [] c = "W" -> "w" [] c = "X" -> "x"
    [] c = "Y" -> "y" [] c = "Z" -> "z" [] OTHER -> c

ToLowerCase(s) == [i \in 1..Len(s) |-> LowerChar(s[i])]

\* String.prototype.includes
Includes(s, sub) ==
  \E i \in 1..(Len(s) - Len(sub) + 1) : SubSeq(s, i, i + Len(sub) - 1) = sub

\* first position >= i of s that holds no white space (Len(s)+1 if none)
SkipSpaces(s, i) ==
  LET rest == {j \in i..Len(s) : ~IsSpace(s[j])}
  IN IF rest = {} THEN Len(s) + 1
     ELSE CHOOSE j \in rest : \A k \in rest : j <= k

\* String.prototype.trim
Trim(s) ==
  LET keep == {j \in 1..Len(s) : ~IsSpace(s[j])}
  IN IF keep = {} THEN <<>>
     ELSE SubSeq(s, CHOOSE j \in keep : \A k \in keep : j <= k,
                    CHOOSE j \in keep : \A k \in keep : j >= k)

\* number of consecutive digits of s starting at position i
DigitRun(s, i) ==
  LET stop == {j \in i..(Len(s) + 1) : ~IsDigit(At(s, j))}
  IN IF stop = {} THEN 0
     ELSE (CHOOSE j \in stop : \A k \in stop : j <= k) - i

\* value of the digit string s[i..j]
RECURSIVE DigitsValue(_, _, _)
DigitsValue(s, i, j) ==
  IF j < i THEN 0 ELSE 10 * DigitsValue(s, i, j - 1) + DigitVal(s[j])

\* String.prototype.split(',')
RECURSIVE SplitComma(_)
SplitComma(s) ==
  LET commas == {j \in 1..Len(s) : s[j] = ","}
  IN IF commas = {} THEN <<s>>
     ELSE LET c == CHOOSE j \in commas : \A k \in commas : j <= k
          IN <<SubSeq(s, 1, c - 1)>> \o SplitComma(SubSeq(s, c + 1, Len(s)))

(***************************************************************************)
(* parseFloat: skips leading white space, reads an optional sign, digits,  *)
(* an optional point and digits, and converts the longest such prefix;     *)
(* NaN when the prefix holds no digit.  Digits after the FracDigits-th     *)
(* fractional one are beyond the fixed-point unit and are dropped (the     *)
(* inputs of the model have none); exponents are not part of any input.    *)
(***************************************************************************)
ParseFloatFrom(s, negative, p) ==
  With(DigitRun(s, p), LAMBDA n1 :
  With(IF At(s, p + n1) = "." THEN DigitRun(s, p + n1 + 1) ELSE 0, LAMBDA n2 :
  With(IF n2 < FracDigits THEN n2 ELSE FracDigits, LAMBDA used :
  With(DigitsValue(s, p, p + n1 - 1) * Scale
       + DigitsValue(s, p + n1 + 1, p + n1 + used) * Pow10(FracDigits - used),
       LAMBDA mag :
    IF n1 + n2 = 0 THEN NaN
    ELSE Num(IF negative THEN 0 - mag ELSE mag)))))

ParseFloat(s) ==
  With(SkipSpaces(s, 1), LAMBDA p0 :
    ParseFloatFrom(s, At(s, p0) = "-",
                   IF At(s, p0) \in {"-", "+"} THEN p0 + 1 ELSE p0))

\* parseFloat(undefined): the argument is converted to the string "undefined"
ParseFloatOpt(fields, i) ==
  IF i <= Len(fields) THEN ParseFloat(fields[i]) ELSE NaN

\* decimal digits of the natural number n
RECURSIVE NatToString(_)
NatToString(n) ==
  IF n < 10 THEN <<DigitChar(n)>>
  ELSE NatToString(n \div 10) \o <<DigitChar(n % 10)>>

\* the k fractional digits of f (0 <= f < 10^k) without trailing zeros
RECURSIVE FracToString(_, _)
FracToString(f, k) ==
  IF f = 0 THEN <<>>
  ELSE <<DigitChar(f \div Pow10(k - 1))>> \o FracToString(f % Pow10(k - 1), k - 1)

\* `${x}` for a number x (Number.prototype.toString)
NumToString(x) ==
  IF x.t = "NaN" THEN <<"N", "a", "N">>
  ELSE IF x.t = "undefined" THEN <<"u", "n", "d", "e", "f", "i", "n", "e", "d">>
  ELSE With(IF x.v < 0 THEN 0 - x.v ELSE x.v, LAMBDA mag :
       With(FracToString(mag % Scale, FracDigits), LAMBDA frac :
         (IF x.v < 0 THEN <<"-">> ELSE <<>>)
         \o NatToString(mag \div Scale)
         \o (IF frac = <<>> THEN <<>> ELSE <<".">> \o frac)))

\* `${lat},${lon}`
CoordString(lat, lon) == NumToString(lat) \o <<",">> \o NumToString(lon)

\* Array.prototype.join(', ')
RECURSIVE JoinComma(_)
JoinComma(parts) ==
  IF Len(parts) = 0 THEN <<>>
  ELSE IF Len(parts) = 1 THEN parts[1]
  ELSE parts[1] \o <<",", " ">> \o JoinComma(Tail(parts))

(***************************************************************************)
(* Input classification (GeocodingService.detectLocationType and the       *)
(* predicates it calls).  A regular expression is translated to the test   *)
(* of whether the whole string matches it.                                 *)
(***************************************************************************)
LowerLetters == {"a", "b", "c", "d", "e", "f", "g", "h", "i", "j", "k", "l", "m", "n", "o", "p", "q", "r", "s", "t", "u", "v", "w", "x", "y", "z"}
UpperLetters == {"A", "B", "C", "D", "E", "F", "G", "H", "I", "J", "K", "L", "M", "N", "O", "P", "Q", "R", "S", "T", "U", "V", "W", "X", "Y", "Z"}
\* [A-Z] under the i flag
IsLetter(c) == c \in LowerLetters \cup UpperLetters

AllDigits(s, i, j) == \A k \in i..j : IsDigit(At(s, k))

\* positions at which a match of -?\d+\.?\d* that starts at i can end
\* (position of the first character after the match)
NumEnds(s, i) ==
  With(IF At(s, i) = "-" THEN i + 1 ELSE i, LAMBDA p :
  With(DigitRun(s, p), LAMBDA n1 :
    IF n1 = 0 THEN {}
    ELSE {p + n : n \in 1..n1}
         \cup (IF At(s, p + n1) = "."
                 THEN {p + n1 + 1 + m : m \in 0..DigitRun(s, p + n1 + 1)}
                 ELSE {})))

\* /^-?\d+\.?\d*,\s*-?\d+\.?\d*$/
DecimalPattern(s) ==
  \E e \in NumEnds(s, 1) :
    /\ At(s, e) = ","
    /\ (Len(s) + 1) \in NumEnds(s, SkipSpaces(s, e + 1))

\* the match of /^(-?\d+\.?\d*)\s*[,;]\s*(-?\d+\.?\d*)$/ on s: the two
\* captured groups, or ok = FALSE
AltMatch(s) ==
  With({e \in NumEnds(s, 1) :
          With(SkipSpaces(s, e), LAMBDA q :
            /\ At(s, q) \in {",", ";"}
            /\ (Len(s) + 1) \in NumEnds(s, SkipSpaces(s, q + 1)))},
       LAMBDA good :
    IF good = {} THEN [ok |-> FALSE, g1 |-> <<>>, g2 |-> <<>>]
    ELSE With(CHOOSE x \in good : \A y \in good : x >= y, LAMBDA e :
           [ok |-> TRUE,
            g1 |-> SubSeq(s, 1, e - 1),
            g2 |-> SubSeq(s, SkipSpaces(s, SkipSpaces(s, e) + 1), Len(s))]))

AltPattern(s) == AltMatch(s).ok

\* one half of the DMS expressions, matched from position i:
\*   (\d+)deg(\d+)['prime](\d*\.?\d*)["dprime]?([hemis])   under the i flag
\* ok, the captured groups and the position after the match
DmsHalf(s, i, hemis) ==
  With(i + DigitRun(s, i), LAMBDA a :
  With(a + 1 + DigitRun(s, a + 1), LAMBDA c :
  With(c + 1 + DigitRun(s, c + 1), LAMBDA e :
  With(IF At(s, e) = "." THEN e + 1 + DigitRun(s, e + 1) ELSE e, LAMBDA f :
  With(IF At(s, f) \in {"\"", "dprime"} THEN f + 1 ELSE f, LAMBDA h :
    [ok  |-> /\ a > i
             /\ At(s, a) = "deg"
             /\ c > a + 1
             /\ At(s, c) \in {"'", "prime"}
             /\ LowerChar(At(s, h)) \in hemis,
     deg |-> SubSeq(s, i, a - 1),
     min |-> SubSeq(s, a + 1, c - 1),
     sec |-> SubSeq(s, c + 1, f - 1),
     dir |-> At(s, h),
     end |-> h + 1])))))

\* the match of the DMS expression on s: both halves, or ok = FALSE
DmsMatch(s) ==
  With(DmsHalf(s, 1, {"n", "s"}), LAMBDA h1 :
  With(SkipSpaces(s, h1.end), LAMBDA q :
  With(DmsHalf(s, q, {"e", "w"}), LAMBDA h2 :
    [ok  |-> h1.ok /\ q > h1.end /\ h2.ok /\ h2.end = Len(s) + 1,
     lat |-> h1,
     lon |-> h2])))

DmsPattern(s) == DmsMatch(s).ok

isCoordinates(s) == DecimalPattern(s) \/ DmsPattern(s) \/ AltPattern(s)

\* a variant of UsZip without the optional four digits: /^\d{5}$/
UsZipFiveOnly(s) == Len(s) = 5 /\ AllDigits(s, 1, 5)

\* /^\d{5}(-\d{4})?$/
UsZip(s) ==
  \/ Len(s) = 5 /\ AllDigits(s, 1, 5)
  \/ Len(s) = 10 /\ AllDigits(s, 1, 5) /\ s[6] = "-" /\ AllDigits(s, 7, 10)

\* /^\d{5}-?\d{3}$/
BrCep(s) ==
  \/ Len(s) = 8 /\ AllDigits(s, 1, 8)
  \/ Len(s) = 9 /\ AllDigits(s, 1, 5) /\ s[6] = "-" /\ AllDigits(s, 7, 9)

\* /^[A-Z]{1,2}\d[A-Z\d]?\s?\d[A-Z]{2}$/i
UkPostcode(s) ==
  \E a \in {1, 2}, b \in {0, 1}, c \in {0, 1} :
    /\ Len(s) = a + 1 + b + c + 3
    /\ \A k \in 1..a : IsLetter(s[k])
    /\ IsDigit(s[a + 1])
    /\ b = 1 => (IsLetter(s[a + 2]) \/ IsDigit(s[a + 2]))
    /\ c = 1 => IsSpace(s[a + 1 + b + 1])
    /\ IsDigit(s[a + 1 + b + c + 1])
    /\ IsLetter(s[a + 1 + b + c + 2])
    /\ IsLetter(s[a + 1 + b + c + 3])

\* /^[A-Z]\d[A-Z]\s?\d[A-Z]\d$/i
CaPostcode(s) ==
  \E c \in {0, 1} :
    /\ Len(s) = 6 + c
    /\ IsLetter(s[1]) /\ IsDigit(s[2]) /\ IsLetter(s[3])
    /\ c = 1 => IsSpace(s[4])
    /\ IsDigit(s[4 + c]) /\ IsLetter(s[5 + c]) /\ IsDigit(s[6 + c])

\* /^\d{5,10}$/
GenericZip(s) == Len(s) >= 5 /\ Len(s) <= 10 /\ AllDigits(s, 1, Len(s))

isZipCode(s) ==
  UsZip(s) \/ BrCep(s) \/ UkPostcode(s) \/ CaPostcode(s) \/ GenericZip(s)

landmarkKeywords ==
  << <<"a", "i", "r", "p", "o", "r", "t">>,
     <<"s", "t", "a", "t", "i", "o", "n">>,
     <<"h", "o", "s", "p", "i", "t", "a", "l">>,
     <<"u", "n", "i", "v", "e", "r", "s", "i", "t", "y">>,
     <<"c", "o", "l", "l", "e", "g", "e">>,
     <<"s", "c", "h", "o", "o", "l">>,
     <<"m", "u", "s", "e", "u", "m">>,
     <<"p", "a", "r", "k">>,
     <<"p", "l", "a", "z", "a">>,
     <<"s", "q", "u", "a", "r", "e">>,
     <<"m", "a", "l", "l">>,
     <<"c", "e", "n", "t", "e", "r">>,
     <<"c", "e", "n", "t", "r", "e">>,
     <<"t", "o", "w", "e", "r">>,
     <<"b", "r", "i", "d", "g", "e">>,
     <<"m", "o", "n", "u", "m", "e", "n", "t">>,
     <<"c", "a", "t", "h", "e", "d", "r", "a", "l">>,
     <<"c", "h", "u", "r", "c", "h">>,
     <<"t", "e", "m", "p", "l", "e">>,
     <<"s", "t", "a", "d", "i", "u", "m">>,
     <<"a", "r", "e", "n", "a">>,
     <<"t", "h", "e", "a", "t", "e", "r">>,
     <<"t", "h", "e", "a", "t", "r", "e">>,
     <<"c", "i", "n", "e", "m", "a">>,
     <<"h", "o", "t", "e", "l">>,
     <<"r", "e", "s", "t", "a", "u", "r", "a", "n", "t">>,
     <<"c", "a", "f", "e">>,
     <<"b", "a", "r">>,
     <<"c", "l", "u", "b">>,
     <<"g", "y", "m">>,
     <<"l", "i", "b", "r", "a", "r", "y">> >>

isLandmark(s) ==
  \E k \in DOMAIN landmarkKeywords : Includes(ToLowerCase(s), landmarkKeywords[k])

\* String.prototype.split(/\s+/)
RECURSIVE SplitWhitespace(_)
SplitWhitespace(s) ==
  LET ws == {j \in 1..Len(s) : IsSpace(s[j])}
  IN IF ws = {} THEN <<s>>
     ELSE LET w == CHOOSE j \in ws : \A k \in ws : j <= k
          IN <<SubSeq(s, 1, w - 1)>>
             \o SplitWhitespace(SubSeq(s, SkipSpaces(s, w), Len(s)))

isCity(s) ==
  LET words == SplitWhitespace(s)
  IN /\ Len(words) <= 3
     /\ ~(\E j \in 1..Len(s) : IsDigit(s[j]))
     /\ \A k \in 1..Len(words) : Len(words[k]) > 1

\* x / k for a number x and a positive integer k, in the fixed-point unit
JsDivide(x, k) == IF IsNumber(x) THEN Num(x.v \div k) ELSE NaN

JsAdd(x, y) == IF IsNumber(x) /\ IsNumber(y) THEN Num(x.v + y.v) ELSE NaN

JsNegate(x) == IF IsNumber(x) THEN Num(0 - x.v) ELSE x

\* deg + min / 60 + sec / 3600, negated for the hemisphere letter given
DmsValue(h, negative) ==
  With(JsAdd(JsAdd(ParseFloat(h.deg), JsDivide(ParseFloat(h.min), 60)),
             JsDivide(ParseFloat(IF h.sec = <<>> THEN <<"0">> ELSE h.sec), 3600)),
       LAMBDA v : IF LowerChar(h.dir) = negative THEN JsNegate(v) ELSE v)

\* a variant of normalizeCoordinates that writes the second number of an
\* alternative-separator pair first
normalizeCoordinatesLonFirst(s) ==
  With(DmsMatch(s), LAMBDA dms :
    IF dms.ok
      THEN CoordString(DmsValue(dms.lat, "s"), DmsValue(dms.lon, "w"))
      ELSE With(AltMatch(s), LAMBDA alt :
             IF alt.ok THEN alt.g2 \o <<",">> \o alt.g1 ELSE s))

normalizeCoordinates(s) ==
  With(DmsMatch(s), LAMBDA dms :
    IF dms.ok
      THEN CoordString(DmsValue(dms.lat, "s"), DmsValue(dms.lon, "w"))
      ELSE With(AltMatch(s), LAMBDA alt :
             IF alt.ok THEN alt.g1 \o <<",">> \o alt.g2 ELSE s))

\* input.replace(/\s+/g, '').replace(/-/g, '-')
normalizeZipCode(s) == SelectSeq(s, LAMBDA c : ~IsSpace(c))

LocationInput(type, value, normalized) ==
  [type |-> type, value |-> value, normalized |-> normalized]

\* a variant of detectLocationType that tests the city shape before the
\* landmark keywords
detectLocationTypeCityFirst(s) ==
  LET trimmed == Trim(s)
  IN IF isCoordinates(trimmed)
       THEN LocationInput("coordinates", trimmed, normalizeCoordinates(trimmed))
     ELSE IF isZipCode(trimmed)
       THEN LocationInput("zipcode", trimmed, normalizeZipCode(trimmed))
     ELSE IF isCity(trimmed) THEN LocationInput("city", trimmed, trimmed)
     ELSE IF isLandmark(trimmed) THEN LocationInput("landmark", trimmed, trimmed)
     ELSE LocationInput("address", trimmed, trimmed)

detectLocationType(s) ==
  LET trimmed == Trim(s)
  IN IF isCoordinates(trimmed)
       THEN LocationInput("coordinates", trimmed, normalizeCoordinates(trimmed))
     ELSE IF isZipCode(trimmed)
       THEN LocationInput("zipcode", trimmed, normalizeZipCode(trimmed))
     ELSE IF isLandmark(trimmed) THEN LocationInput("landmark", trimmed, trimmed)
     ELSE IF isCity(trimmed) THEN LocationInput("city", trimmed, trimmed)
     ELSE LocationInput("address", trimmed, trimmed)

\* a variant of classify that runs the detection whatever the hint
classifyIgnoresHint(input, hint) == detectLocationType(Trim(input))

\* the LocationInput that resolveLocation hands to resolveByType; the hint
\* "none" stands for an absent locationType argument
classify(input, hint) ==
  LET trimmedInput == Trim(input)
  IN IF hint # "none" /\ hint # "auto"
       THEN LocationInput(hint, trimmedInput,
              IF hint = "coordinates" THEN normalizeCoordinates(trimmedInput)
              ELSE IF hint = "zipcode" THEN normalizeZipCode(trimmedInput)
              ELSE trimmedInput)
     ELSE detectLocationType(trimmedInput)

\* the chain resolveByType dispatches to
chainOf(type) ==
  IF type = "coordinates" THEN "coordinates"
  ELSE IF type = "zipcode" THEN "zipcode"
  ELSE "text"


(***************************************************************************)
(* String constants of the code.                                           *)
(***************************************************************************)
Unknown == <<"U", "n", "k", "n", "o", "w", "n">>
UnknownLocation == <<"U", "n", "k", "n", "o", "w", "n", " ", "L", "o", "c", "a", "t", "i", "o", "n">>

UpperChar(c) ==
  IF c \in LowerLetters
    THEN CHOOSE u \in UpperLetters : LowerChar(u) = c
    ELSE c

ToUpperCase(s) == [i \in 1..Len(s) |-> UpperChar(s[i])]

\* a string member that an answer does not carry (undefined), where the code
\* tells it from the empty string: a one-element sequence that is no string
\* of characters.  Elsewhere a missing member is written <<>> as an empty one.
Missing == <<"undefined">>

\* a || b on strings: undefined and the empty string are falsy
OrElse(a, b) == IF a # <<>> /\ a # Missing THEN a ELSE b

\* s && s.trim(): the field is present and not blank
Present(s) == s # <<>> /\ s # Missing /\ Trim(s) # <<>>

(***************************************************************************)
(* Errors.  message is the list of the literal pieces of the message text  *)
(* followed by arg, the interpolated value.  custom marks the instances of *)
(* CustomError (LocationNotFoundError is one); status is the HTTP status   *)
(* of an axios error's response, 0 when the request got no response.       *)
(***************************************************************************)
MakeError(name, custom, statusCode, axios, status, message, arg) ==
  [name |-> name, custom |-> custom, statusCode |-> statusCode,
   axios |-> axios, status |-> status, message |-> message, arg |-> arg]

\* new Error(message)
PlainError(message, arg) == MakeError("Error", FALSE, 0, FALSE, 0, message, arg)

\* new LocationNotFoundError(location)
LocationNotFoundError(location) ==
  MakeError("LocationNotFoundError", TRUE, 404, FALSE, 0,
            <<"Location not found: ">>, location)

\* the error axios rejects with: a response with a non-2xx status, or no
\* response within the timeout
AxiosError(status) ==
  MakeError("AxiosError", FALSE, 0, TRUE, status,
            IF status = 0 THEN <<"timeout of 10000ms exceeded">>
            ELSE <<"Request failed with status code">>, <<>>)

\* the TypeError of reading a property of undefined or null
TypeError == MakeError("TypeError", FALSE, 0, FALSE, 0,
                       <<"Cannot read properties of undefined">>, <<>>)

NoError == MakeError("none", FALSE, 0, FALSE, 0, <<>>, <<>>)

\* new Error(`Geocoding service error: ${error.message}`)
GeocodingServiceError(error) ==
  PlainError(<<"Geocoding service error: ">> \o error.message, error.arg)

\* error.message.includes(needle) for the needles errorHandler looks for;
\* no input of the model contains one of them
MessageIncludes(error, needle) ==
  \E i \in DOMAIN error.message :
    \/ error.message[i] = "Geocoding service error: " /\ needle = "Geocoding service error"
    \/ error.message[i] = "Location not found: " /\ needle = "Location not found"
    \/ error.message[i] = "Weather service error: " /\ needle = "Weather service error"
    \/ /\ error.message[i] = "Historical weather service error: "
       /\ needle = "Historical weather service error"

\* the status errorHandler answers with (the code of a MongoError is kept in
\* the status field of the error record)
errorHandler(error) ==
  IF error.name = "ZodError" THEN 400
  ELSE IF error.custom THEN error.statusCode
  ELSE IF error.name = "MongoError" /\ error.status = 11000 THEN 409
  ELSE IF error.name = "ValidationError" THEN 400
  ELSE IF error.name = "CastError" THEN 400
  ELSE IF \/ MessageIncludes(error, "Weather service error")
          \/ MessageIncludes(error, "Geocoding service error")
          \/ MessageIncludes(error, "Historical weather service error") THEN 502
  ELSE IF MessageIncludes(error, "Location not found") THEN 400
  ELSE 500

(***************************************************************************)
(* Query variations of the fallback search.                                *)
(***************************************************************************)
corrections ==
  << [key |-> <<"t", "o", "k", "i", "o">>,
      values |-> << <<"t", "o", "k", "y", "o">>,
                   <<"t", "o", "k", "y", "o", " ", "j", "a", "p", "a", "n">> >>],
     [key |-> <<"t", "o", "k", "y", "o">>,
      values |-> << <<"t", "o", "k", "y", "o", " ", "j", "a", "p", "a", "n">>,
                   <<"t", "o", "k", "y", "o", ",", " ", "j", "a", "p", "a", "n">> >>],
     [key |-> <<"j", "a", "p", "a", "n">>,
      values |-> << <<"j", "a", "p", "a", "n">>,
                   <<"j", "a", "p", "a", "n", " ", "c", "o", "u", "n", "t", "r", "y">> >>],
     [key |-> <<"p", "a", "r", "i", "s">>,
      values |-> << <<"p", "a", "r", "i", "s", " ", "f", "r", "a", "n", "c", "e">>,
                   <<"p", "a", "r", "i", "s", ",", " ", "f", "r", "a", "n", "c", "e">> >>],
     [key |-> <<"l", "o", "n", "d", "o", "n">>,
      values |-> << <<"l", "o", "n", "d", "o", "n", " ", "e", "n", "g", "l", "a", "n", "d">>,
                   <<"l", "o", "n", "d", "o", "n", " ", "u", "k">>,
                   <<"l", "o", "n", "d", "o", "n", ",", " ", "e", "n", "g", "l", "a", "n", "d">> >>],
     [key |-> <<"n", "e", "w", " ", "y", "o", "r", "k">>,
      values |-> << <<"n", "e", "w", " ", "y", "o", "r", "k", " ", "c", "i", "t", "y">>,
                   <<"n", "e", "w", " ", "y", "o", "r", "k", ",", " ", "n", "y">>,
                   <<"n", "e", "w", " ", "y", "o", "r", "k", " ", "c", "i", "t", "y", ",", " ", "n", "y">> >>],
     [key |-> <<"l", "o", "s", " ", "a", "n", "g", "e", "l", "e", "s">>,
      values |-> << <<"l", "o", "s", " ", "a", "n", "g", "e", "l", "e", "s", ",", " ", "c", "a">>,
                   <<"l", "o", "s", " ", "a", "n", "g", "e", "l", "e", "s", " ", "c", "a", "l", "i", "f", "o", "r", "n", "i", "a">> >>],
     [key |-> <<"s", "a", "o", " ", "p", "a", "u", "l", "o">>,
      values |-> << <<"s", "a", "o", " ", "p", "a", "u", "l", "o", " ", "b", "r", "a", "z", "i", "l">>,
                   <<"s", "a", "o", " ", "p", "a", "u", "l", "o", ",", " ", "b", "r", "a", "z", "i", "l">> >>],
     [key |-> <<"r", "i", "o", " ", "d", "e", " ", "j", "a", "n", "e", "i", "r", "o">>,
      values |-> << <<"r", "i", "o", " ", "d", "e", " ", "j", "a", "n", "e", "i", "r", "o", " ", "b", "r", "a", "z", "i", "l">>,
                   <<"r", "i", "o", " ", "d", "e", " ", "j", "a", "n", "e", "i", "r", "o", ",", " ", "b", "r", "a", "z", "i", "l">> >>] >>

suffixes == << <<"c", "i", "t", "y">>, <<"t", "o", "w", "n">>, <<"v", "i", "l", "l", "a", "g", "e">>, <<"m", "u", "n", "i", "c", "i", "p", "a", "l", "i", "t", "y">> >>

\* a variant of Dedupe that keeps the duplicates
DedupeNone(list) == list

\* [...new Set(list)]: the first occurrence of every element, in order
RECURSIVE Dedupe(_)
Dedupe(list) ==
  IF list = <<>> THEN <<>>
  ELSE LET front == Dedupe(SubSeq(list, 1, Len(list) - 1))
           last  == list[Len(list)]
       IN IF \E i \in DOMAIN front : front[i] = last THEN front
          ELSE Append(front, last)

RECURSIVE CorrectionsFrom(_, _)
CorrectionsFrom(lowerQuery, k) ==
  IF k > Len(corrections) THEN <<>>
  ELSE (IF Includes(lowerQuery, corrections[k].key)
          THEN corrections[k].values ELSE <<>>)
       \o CorrectionsFrom(lowerQuery, k + 1)

RECURSIVE SuffixesFrom(_, _, _)
SuffixesFrom(query, lowerQuery, k) ==
  IF k > Len(suffixes) THEN <<>>
  ELSE (IF ~Includes(lowerQuery, suffixes[k])
          THEN << query \o <<" ">> \o suffixes[k] >> ELSE <<>>)
       \o SuffixesFrom(query, lowerQuery, k + 1)

\* a variant of generateQueryVariations that matches the keys and the
\* suffixes against the query as typed, not lowercased
generateQueryVariationsAsTyped(query) ==
  Dedupe(<<query>> \o CorrectionsFrom(query, 1) \o SuffixesFrom(query, query, 1))

generateQueryVariations(query) ==
  LET lowerQuery == ToLowerCase(query)
  IN Dedupe(<<query>> \o CorrectionsFrom(lowerQuery, 1)
                      \o SuffixesFrom(query, lowerQuery, 1))

(***************************************************************************)
(* Country names of the postal chain.                                      *)
(***************************************************************************)
countryMap ==
  << [code |-> <<"B", "R">>, name |-> <<"B", "r", "a", "z", "i", "l">>],
     [code |-> <<"U", "S">>, name |-> <<"U", "n", "i", "t", "e", "d", " ", "S", "t", "a", "t", "e", "s">>],
     [code |-> <<"C", "A">>, name |-> <<"C", "a", "n", "a", "d", "a">>],
     [code |-> <<"G", "B">>, name |-> <<"U", "n", "i", "t", "e", "d", " ", "K", "i", "n", "g", "d", "o", "m">>],
     [code |-> <<"F", "R">>, name |-> <<"F", "r", "a", "n", "c", "e">>],
     [code |-> <<"D", "E">>, name |-> <<"G", "e", "r", "m", "a", "n", "y">>],
     [code |-> <<"I", "T">>, name |-> <<"I", "t", "a", "l", "y">>],
     [code |-> <<"E", "S">>, name |-> <<"S", "p", "a", "i", "n">>],
     [code |-> <<"P", "T">>, name |-> <<"P", "o", "r", "t", "u", "g", "a", "l">>],
     [code |-> <<"J", "P">>, name |-> <<"J", "a", "p", "a", "n">>],
     [code |-> <<"C", "N">>, name |-> <<"C", "h", "i", "n", "a">>],
     [code |-> <<"I", "N">>, name |-> <<"I", "n", "d", "i", "a">>],
     [code |-> <<"A", "U">>, name |-> <<"A", "u", "s", "t", "r", "a", "l", "i", "a">>],
     [code |-> <<"M", "X">>, name |-> <<"M", "e", "x", "i", "c", "o">>],
     [code |-> <<"A", "R">>, name |-> <<"A", "r", "g", "e", "n", "t", "i", "n", "a">>],
     [code |-> <<"C", "L">>, name |-> <<"C", "h", "i", "l", "e">>],
     [code |-> <<"C", "O">>, name |-> <<"C", "o", "l", "o", "m", "b", "i", "a">>],
     [code |-> <<"P", "E">>, name |-> <<"P", "e", "r", "u">>],
     [code |-> <<"V", "E">>, name |-> <<"V", "e", "n", "e", "z", "u", "e", "l", "a">>],
     [code |-> <<"U", "Y">>, name |-> <<"U", "r", "u", "g", "u", "a", "y">>],
     [code |-> <<"P", "Y">>, name |-> <<"P", "a", "r", "a", "g", "u", "a", "y">>],
     [code |-> <<"B", "O">>, name |-> <<"B", "o", "l", "i", "v", "i", "a">>],
     [code |-> <<"E", "C">>, name |-> <<"E", "c", "u", "a", "d", "o", "r">>],
     [code |-> <<"G", "Y">>, name |-> <<"G", "u", "y", "a", "n", "a">>],
     [code |-> <<"S", "R">>, name |-> <<"S", "u", "r", "i", "n", "a", "m", "e">>],
     [code |-> <<"G", "F">>, name |-> <<"F", "r", "e", "n", "c", "h", " ", "G", "u", "i", "a", "n", "a">>] >>

\* the name of the table or the code itself; countryCode.toUpperCase() throws
\* a TypeError when the code is undefined, and the error is the value then
getCountryName(countryCode) ==
  IF countryCode = Missing THEN TypeError
  ELSE LET hits == {k \in DOMAIN countryMap : countryMap[k].code = ToUpperCase(countryCode)}
       IN IF hits = {} THEN countryCode
          ELSE countryMap[CHOOSE k \in hits : TRUE].name


(***************************************************************************)
(* Provider answers.  Each provider's answer to a request is one of a      *)
(* small set: hits drawn from sample records (complete, partly empty, with *)
(* coordinates out of range or missing), an empty answer, a body without   *)
(* the expected members, an HTTP error status, or no answer in time.       *)
(***************************************************************************)
\* sequences over S of length 0..n
RECURSIVE SeqsUpTo(_, _)
SeqsUpTo(S, n) ==
  IF n = 0 THEN {<<>>}
  ELSE LET shorter == SeqsUpTo(S, n - 1)
       IN shorter \cup {Append(q, e) : q \in {r \in shorter : Len(r) = n - 1}, e \in S}

Response(kind, status, results) ==
  [kind |-> kind, status |-> status, results |-> results]

ErrorStatuses == {400, 401, 404, 429, 500}

\* answers common to every provider: kind "error" is an HTTP error status,
\* "timeout" no response within the timeout, "nobody" a 2xx response whose
\* body lacks the result member, "malformed" a 2xx response with a null body
FailureResponses ==
  {Response("error", s, <<>>) : s \in ErrorStatuses}
    \cup {Response("timeout", 0, <<>>), Response("nobody", 200, <<>>),
          Response("malformed", 200, <<>>)}

\* hits of the Open-Meteo geocoding API
OpenMeteoHit(name, country, admin1, admin2, latitude, longitude, feature) ==
  [name |-> name, country |-> country, admin1 |-> admin1, admin2 |-> admin2,
   latitude |-> latitude, longitude |-> longitude, feature_code |-> feature]

OMCity == OpenMeteoHit(<<"R", "i", "o">>, <<"B", "r", "a", "z", "i", "l">>, <<"R", "J">>, <<>>, Tenths(0 - 229), Tenths(0 - 432), "PPLA")
OMPoi == OpenMeteoHit(<<"U", "r", "c", "a">>, <<"B", "r", "a", "z", "i", "l">>, <<"R", "J">>, <<"R", "i", "o">>, Deg(0 - 23), Deg(0 - 43), "MT")
OMBare == OpenMeteoHit(<<>>, <<>>, <<>>, <<>>, Deg(91), Undefined, "AIRP")

OpenMeteoHits == {OMCity, OMPoi, OMBare}

OpenMeteoResponses ==
  {Response("ok", 200, r) : r \in SeqsUpTo(OpenMeteoHits, MaxHits)} \cup FailureResponses

\* results of the Nominatim reverse API
NominatimAddress(suburb, city, municipality, city_district, town, state, region, country) ==
  [suburb |-> suburb, city |-> city, municipality |-> municipality,
   city_district |-> city_district, town |-> town, state |-> state,
   region |-> region, country |-> country]

NominatimResult(name, display_name, lat, lon, address) ==
  [name |-> name, display_name |-> display_name, lat |-> lat, lon |-> lon,
   address |-> address]

NomFull == NominatimResult(<<"S", "e">>, <<"S", "e">>, <<"-", "2", "3", ".", "5", "5">>, <<"-", "4", "6", ".", "6", "3">>,
             NominatimAddress(<<"S", "e">>, <<"S", "P">>, <<"S", "P">>, <<>>, <<>>, <<"S", "P">>, <<>>, <<"B", "r", "a", "z", "i", "l">>))
NomBare == NominatimResult(<<>>, <<"S", "e", "a">>, <<"0">>, <<"0">>,
             NominatimAddress(<<>>, <<>>, <<>>, <<>>, <<>>, <<>>, <<>>, <<>>))

NominatimResults == {NomFull, NomBare}

\* kind "ok": the body carries a place_id; "nobody": it does not
NominatimReverseResponses ==
  {Response("ok", 200, <<r>>) : r \in NominatimResults} \cup FailureResponses

\* results of the Nominatim search API used by FallbackGeocodeService
SearchAddress(city, town, village, hamlet, municipality, state, province, region, country) ==
  [city |-> city, town |-> town, village |-> village, hamlet |-> hamlet,
   municipality |-> municipality, state |-> state, province |-> province,
   region |-> region, country |-> country]

SearchResult(lat, lon, display_name, address) ==
  [lat |-> lat, lon |-> lon, display_name |-> display_name, address |-> address]

NSGood == SearchResult(<<"3", "5", ".", "6", "8">>, <<"1", "3", "9", ".", "6", "9">>, <<"T", "o", "k", "y", "o", ",", " ", "J", "a", "p", "a", "n">>,
            SearchAddress(<<"T", "o", "k", "y", "o">>, <<>>, <<>>, <<>>, <<>>, <<"T", "o", "k", "y", "o">>, <<>>, <<>>, <<"J", "a", "p", "a", "n">>))
NSDisplay == SearchResult(<<"5", "1", ".", "5">>, <<"-", "0", ".", "1", "2">>, <<"B", "i", "g", " ", "B", "e", "n", ",", " ", "L", "o", "n", "d", "o", "n">>,
            SearchAddress(<<>>, <<>>, <<>>, <<>>, <<>>, <<>>, <<>>, <<>>, <<>>))
NSNameless == SearchResult(<<"9", "1">>, <<>>, <<>>,
            SearchAddress(<<>>, <<>>, <<>>, <<>>, <<>>, <<>>, <<>>, <<>>, <<>>))

SearchResults == {NSGood, NSDisplay, NSNameless}

NominatimSearchResponses ==
  {Response("ok", 200, r) : r \in SeqsUpTo(SearchResults, MaxHits)} \cup FailureResponses

\* candidates of the ZipCodeBase API
ZipCodeBaseResult(postal_code, country_code, latitude, longitude, city, state, state_en, province) ==
  [postal_code |-> postal_code, country_code |-> country_code,
   latitude |-> latitude, longitude |-> longitude, city |-> city,
   state |-> state, state_en |-> state_en, province |-> province]

ZFull == ZipCodeBaseResult(<<"0", "1", "3", "1", "0", "-", "1", "0", "0">>, <<"B", "R">>, <<"-", "2", "3", ".", "5", "5">>, <<"-", "4", "6", ".", "6", "3">>, <<"S", "P">>, <<"S", "P">>, <<"S", "P">>, <<>>)
ZFar == ZipCodeBaseResult(<<"0", "1", "3", "1", "0", "-", "1", "0", "0">>, <<"u", "s">>, <<"9", "5">>, <<"0">>, <<"N", "Y">>, <<>>, <<>>, <<"N", "Y">>)
ZBare == ZipCodeBaseResult(<<"0", "1", "3", "1", "0", "-", "1", "0", "0">>, Missing, <<>>, <<>>, <<>>, <<>>, <<>>, <<>>)

ZipCodeBaseResults == {ZFull, ZFar, ZBare}

\* kind "ok": results[code] is the list given (a missing entry is the empty list)
ZipCodeBaseResponses ==
  {Response("ok", 200, r) : r \in SeqsUpTo(ZipCodeBaseResults, MaxHits)} \cup FailureResponses


(***************************************************************************)
(* Results.                                                                *)
(***************************************************************************)
Location(name, country, admin1, lat, lon, resolvedBy) ==
  [name |-> name, country |-> country, admin1 |-> admin1,
   lat |-> lat, lon |-> lon, resolvedBy |-> resolvedBy]

NoLocation == Location(<<>>, <<>>, <<>>, Undefined, Undefined, "none")

Details(name, country, admin1) ==
  [name |-> name, country |-> country, admin1 |-> admin1]

NoDetails == Details(<<>>, <<>>, <<>>)

JsLe(a, b) == IsNumber(a) /\ IsNumber(b) /\ a.v <= b.v
JsGe(a, b) == IsNumber(a) /\ IsNumber(b) /\ a.v >= b.v

\* GeocodingService.validateCoordinates
validateCoordinates(lat, lon) ==
  /\ JsGe(lat, Deg(0 - 90)) /\ JsLe(lat, Deg(90))
  /\ JsGe(lon, Deg(0 - 180)) /\ JsLe(lon, Deg(180))

(***************************************************************************)
(* Coordinate path: GeocodingService.resolveCoordinates, reverseGeocode,   *)
(* fallbackReverseGeocode and NominatimService.                            *)
(***************************************************************************)
\* the lat and lon resolveCoordinates parses from the normalized input
parseCoordinates(normalized) ==
  LET coords == SplitComma(normalized)
  IN [lat |-> ParseFloatOpt(coords, 1), lon |-> ParseFloatOpt(coords, 2)]

\* a variant of coordinatesRejected that tests the latitude only
coordinatesRejectedLatOnly(lat, lon) ==
  JsLt(lat, Deg(0 - 90)) \/ JsGt(lat, Deg(90))

\* lat < -90 || lat > 90 || lon < -180 || lon > 180
coordinatesRejected(lat, lon) ==
  \/ JsLt(lat, Deg(0 - 90)) \/ JsGt(lat, Deg(90))
  \/ JsLt(lon, Deg(0 - 180)) \/ JsGt(lon, Deg(180))

InvalidCoordinatesError ==
  PlainError(<<"Invalid coordinates. Latitude must be between -90 and 90, longitude between -180 and 180.">>, <<>>)

\* a variant of coordinatesLocation with the two coordinates exchanged
coordinatesLocationSwapped(rev, lat, lon) ==
  IF rev.raised
    THEN Location(CoordString(lat, lon), Unknown, Unknown, lon, lat, "coords")
    ELSE Location(rev.value.name, rev.value.country, rev.value.admin1, lon, lat, "coords")

\* the location resolveCoordinates builds from what reverseGeocode returned
\* (raised: reverseGeocode threw and the catch branch builds the location)
coordinatesLocation(rev, lat, lon) ==
  IF rev.raised
    THEN Location(CoordString(lat, lon), Unknown, Unknown, lat, lon, "coords")
    ELSE Location(rev.value.name, rev.value.country, rev.value.admin1, lat, lon, "coords")

\* NominatimService.reverseGeocode: a result, null (found = FALSE) or an error
NominatimReverseGeocode(resp, lat, lon) ==
  IF resp.kind = "ok"
    THEN [threw |-> FALSE, error |-> NoError, found |-> TRUE, results |-> resp.results]
  ELSE IF resp.kind \in {"nobody", "malformed"}
    THEN [threw |-> FALSE, error |-> NoError, found |-> FALSE, results |-> <<>>]
  ELSE [threw |-> TRUE,
        error |-> IF resp.status = 429
                    THEN PlainError(<<"Nominatim API rate limit exceeded">>, <<>>)
                  ELSE IF resp.status = 404
                    THEN LocationNotFoundError(CoordString(lat, lon))
                  ELSE PlainError(<<"Nominatim API error: ">> \o AxiosError(resp.status).message, <<>>),
        found |-> FALSE, results |-> <<>>]

\* NominatimService.buildLocationName
NominatimBuildLocationName(result) ==
  LET address == result.address
      parts ==
        (IF Present(result.name) THEN <<result.name>> ELSE <<>>)
        \o (IF Present(address.city) /\ address.city # result.name
              THEN <<address.city>> ELSE <<>>)
        \o (IF /\ Present(address.city_district)
               /\ address.city_district # address.city
               /\ address.city_district # result.name
              THEN <<address.city_district>> ELSE <<>>)
        \o (IF /\ Present(address.town)
               /\ address.town # address.city
               /\ address.town # result.name
              THEN <<address.town>> ELSE <<>>)
        \o (IF /\ Present(address.municipality)
               /\ address.municipality # address.city
               /\ address.municipality # result.name
              THEN <<address.municipality>> ELSE <<>>)
        \o (IF /\ Present(address.suburb)
               /\ address.suburb # address.city
               /\ address.suburb # result.name
              THEN <<address.suburb>> ELSE <<>>)
        \o (IF Present(address.state) THEN <<address.state>> ELSE <<>>)
        \o (IF Present(address.country) THEN <<address.country>> ELSE <<>>)
  IN IF Len(parts) > 0 THEN JoinComma(parts) ELSE result.display_name

\* NominatimService.getCountryName
NominatimGetCountryName(result) == OrElse(result.address.country, Unknown)

\* NominatimService.getStateName
NominatimGetStateName(result) ==
  OrElse(result.address.state, OrElse(result.address.region, Unknown))

ReverseStep(next, raised, value) ==
  [next |-> next, raised |-> raised, value |-> value]

EchoDetails(lat, lon) == Details(CoordString(lat, lon), Unknown, Unknown)

\* reverseGeocode, first strategy: the Nominatim answer is returned, or the
\* chain goes on with the Open-Meteo search by coordinates
reverseGeocodePrimary(resp, lat, lon) ==
  LET r == NominatimReverseGeocode(resp, lat, lon)
  IN IF ~r.threw /\ r.found
       THEN ReverseStep("return", FALSE,
              Details(NominatimBuildLocationName(r.results[1]),
                      NominatimGetCountryName(r.results[1]),
                      NominatimGetStateName(r.results[1])))
       ELSE ReverseStep("openmeteo", FALSE, NoDetails)

\* the hit reverseGeocode keeps: the first populated place, else the first hit
bestReverseResult(results) ==
  LET populated == {k \in DOMAIN results :
                      results[k].feature_code \in {"PPL", "PPLA", "PPLA2"}}
  IN IF populated = {} THEN results[1]
     ELSE results[CHOOSE k \in populated : \A j \in populated : k <= j]

\* a variant of reverseGeocodeOpenMeteo that answers an empty search by
\* coordinates with the coordinate pair at once, without the broad search
reverseGeocodeOpenMeteoNoBroad(resp, lat, lon) ==
  IF resp.kind = "ok" /\ Len(resp.results) > 0
    THEN LET bestResult == bestReverseResult(resp.results)
             locationParts ==
               (IF bestResult.name # <<>> THEN <<bestResult.name>> ELSE <<>>)
               \o (IF /\ bestResult.admin2 # <<>>
                      /\ bestResult.admin2 # bestResult.name
                      /\ bestResult.admin2 # bestResult.admin1
                     THEN <<bestResult.admin2>> ELSE <<>>)
               \o (IF bestResult.admin1 # <<>> THEN <<bestResult.admin1>> ELSE <<>>)
               \o (IF bestResult.country # <<>> THEN <<bestResult.country>> ELSE <<>>)
         IN ReverseStep("return", FALSE,
              Details(IF Len(locationParts) > 0 THEN JoinComma(locationParts)
                      ELSE CoordString(lat, lon),
                      OrElse(bestResult.country, Unknown),
                      OrElse(bestResult.admin1, Unknown)))
  ELSE ReverseStep("return", FALSE, EchoDetails(lat, lon))

\* reverseGeocode, second strategy: the answer of the search by coordinates
reverseGeocodeOpenMeteo(resp, lat, lon) ==
  IF resp.kind = "ok" /\ Len(resp.results) > 0
    THEN LET bestResult == bestReverseResult(resp.results)
             locationParts ==
               (IF bestResult.name # <<>> THEN <<bestResult.name>> ELSE <<>>)
               \o (IF /\ bestResult.admin2 # <<>>
                      /\ bestResult.admin2 # bestResult.name
                      /\ bestResult.admin2 # bestResult.admin1
                     THEN <<bestResult.admin2>> ELSE <<>>)
               \o (IF bestResult.admin1 # <<>> THEN <<bestResult.admin1>> ELSE <<>>)
               \o (IF bestResult.country # <<>> THEN <<bestResult.country>> ELSE <<>>)
         IN ReverseStep("return", FALSE,
              Details(IF Len(locationParts) > 0 THEN JoinComma(locationParts)
                      ELSE CoordString(lat, lon),
                      OrElse(bestResult.country, Unknown),
                      OrElse(bestResult.admin1, Unknown)))
  ELSE IF resp.kind \in {"ok", "nobody"}
    THEN ReverseStep("broad", FALSE, NoDetails)
  ELSE ReverseStep("return", FALSE, EchoDetails(lat, lon))

\* a variant of fallbackReverseGeocode that lets the failure of the search
\* escape from reverseGeocode
fallbackReverseGeocodeRaises(resp, lat, lon) ==
  IF resp.kind = "ok" /\ Len(resp.results) > 0
    THEN ReverseStep("return", FALSE,
           Details(OrElse(resp.results[1].name, CoordString(lat, lon)),
                   OrElse(resp.results[1].country, Unknown),
                   OrElse(resp.results[1].admin1, Unknown)))
    ELSE ReverseStep("return", TRUE, NoDetails)

\* fallbackReverseGeocode: the answer of the search for the coordinate pair
\* as a name; reverseGeocode returns what it returns
fallbackReverseGeocode(resp, lat, lon) ==
  IF resp.kind = "ok" /\ Len(resp.results) > 0
    THEN ReverseStep("return", FALSE,
           Details(OrElse(resp.results[1].name, CoordString(lat, lon)),
                   OrElse(resp.results[1].country, Unknown),
                   OrElse(resp.results[1].admin1, Unknown)))
    ELSE ReverseStep("return", FALSE, EchoDetails(lat, lon))

(***************************************************************************)
(* Postal chain: GeocodingService.resolveZipCode and ZipCodeBaseService.   *)
(***************************************************************************)
\* ZipCodeBaseService.isAvailable
isAvailable(apiKey) == apiKey # <<>>

\* ZipCodeBaseService.normalizePostalCode
normalizePostalCode(postalCode) ==
  LET cleaned == SelectSeq(postalCode, IsDigit)
  IN IF Len(cleaned) = 8
       THEN SubSeq(cleaned, 1, 5) \o <<"-">> \o SubSeq(cleaned, 6, 8)
       ELSE cleaned

\* ZipCodeBaseService.searchPostalCode once the request is answered
searchPostalCode(resp, postalCode) ==
  IF resp.kind = "ok" THEN [threw |-> FALSE, error |-> NoError, results |-> resp.results]
  ELSE IF resp.kind = "nobody" THEN [threw |-> FALSE, error |-> NoError, results |-> <<>>]
  ELSE [threw |-> TRUE,
        error |-> IF resp.kind = "malformed" THEN TypeError
                  ELSE IF resp.status = 404 THEN LocationNotFoundError(postalCode)
                  ELSE IF resp.status = 401
                    THEN PlainError(<<"Invalid ZipCodeBase API key">>, <<>>)
                  ELSE IF resp.status = 429
                    THEN PlainError(<<"ZipCodeBase API rate limit exceeded">>, <<>>)
                  ELSE PlainError(<<"ZipCodeBase API error: ">> \o AxiosError(resp.status).message, <<>>),
        results |-> <<>>]

\* a variant of calculateResultScore that takes the province weight off
calculateResultScorePenalty(result) ==
  (IF Present(result.city) THEN 10 ELSE 0)
  + (IF Present(result.state) THEN 8 ELSE 0)
  - (IF Present(result.province) THEN 5 ELSE 0)
  + (IF /\ result.latitude # <<>> /\ result.longitude # <<>>
        /\ validateCoordinates(ParseFloat(result.latitude), ParseFloat(result.longitude))
       THEN 15 ELSE 0)
  + (IF Present(result.country_code) THEN 3 ELSE 0)

\* ZipCodeBaseService.calculateResultScore
calculateResultScore(result) ==
  (IF Present(result.city) THEN 10 ELSE 0)
  + (IF Present(result.state) THEN 8 ELSE 0)
  + (IF Present(result.province) THEN 5 ELSE 0)
  + (IF /\ result.latitude # <<>> /\ result.longitude # <<>>
        /\ validateCoordinates(ParseFloat(result.latitude), ParseFloat(result.longitude))
       THEN 15 ELSE 0)
  + (IF Present(result.country_code) THEN 3 ELSE 0)

\* scoredResults.sort((a, b) => b.score - a.score), one insertion: Array.sort
\* is stable, so an entry goes behind the entries of the same score that
\* came before it.  This variant puts it in front of them.
InsertByScoreUnstable(sorted, entry) ==
  SelectSeq(sorted, LAMBDA e : e.score > entry.score)
  \o <<entry>>
  \o SelectSeq(sorted, LAMBDA e : e.score <= entry.score)

\* scoredResults.sort((a, b) => b.score - a.score), one insertion: the entry
\* goes behind every entry of a higher or the same score
InsertByScore(sorted, entry) ==
  SelectSeq(sorted, LAMBDA e : e.score >= entry.score)
  \o <<entry>>
  \o SelectSeq(sorted, LAMBDA e : e.score < entry.score)

\* scoredResults.sort((a, b) => b.score - a.score)
RECURSIVE SortByScore(_)
SortByScore(scoredResults) ==
  IF scoredResults = <<>> THEN <<>>
  ELSE InsertByScore(SortByScore(SubSeq(scoredResults, 1, Len(scoredResults) - 1)),
                     scoredResults[Len(scoredResults)])

\* ZipCodeBaseService.getBestResult: none for an empty list, the only
\* candidate of a list of one, else the head of the candidates sorted by score
getBestResult(results) ==
  IF Len(results) = 0 THEN [found |-> FALSE, results |-> <<>>]
  ELSE IF Len(results) = 1 THEN [found |-> TRUE, results |-> <<results[1]>>]
  ELSE [found |-> TRUE,
        results |-> <<SortByScore(
                        [k \in DOMAIN results |->
                           [result |-> results[k],
                            score |-> calculateResultScore(results[k])]])[1].result>>]

buildLocationNameFromZipCodeBase(result) ==
  LET parts ==
        (IF Present(result.city) THEN <<result.city>> ELSE <<>>)
        \o (IF Present(result.state) /\ result.state # result.city
              THEN <<result.state>> ELSE <<>>)
        \o (IF /\ Present(result.province)
               /\ result.province # result.city
               /\ result.province # result.state
              THEN <<result.province>> ELSE <<>>)
        \o (IF Present(result.country_code)
              THEN <<getCountryName(result.country_code)>> ELSE <<>>)
  IN IF Len(parts) > 0 THEN JoinComma(parts) ELSE result.postal_code

ChainStep(next, location, error) ==
  [next |-> next, location |-> location, error |-> error]

\* resolveZipCode, first strategy: the ZipCodeBase answer is returned, or the
\* chain goes on with the Open-Meteo search (an error is logged, not thrown:
\* that of the search, and the TypeError of getCountryName on a best
\* candidate without country_code, raised inside the same try)
resolveZipCodePrimary(resp, locationInput) ==
  LET r    == searchPostalCode(resp, locationInput.normalized)
      best == getBestResult(r.results)
  IN IF ~r.threw /\ best.found /\ best.results[1].country_code # Missing
       THEN LET bestResult == best.results[1]
            IN ChainStep("return",
                 Location(buildLocationNameFromZipCodeBase(bestResult),
                          getCountryName(bestResult.country_code),
                          OrElse(bestResult.state, OrElse(bestResult.state_en, Unknown)),
                          ParseFloat(bestResult.latitude),
                          ParseFloat(bestResult.longitude),
                          "zipcode"),
                 NoError)
       ELSE ChainStep("fallback", NoLocation, NoError)

\* a variant of resolveZipCodeFallback that tags its result as any other
\* geocoding result
resolveZipCodeFallbackUntagged(resp, locationInput) ==
  IF resp.kind = "ok" /\ Len(resp.results) > 0
    THEN LET result == resp.results[1]
         IN ChainStep("return",
              Location(OrElse(result.name, locationInput.value),
                       OrElse(result.country, Unknown),
                       OrElse(result.admin1, Unknown),
                       result.latitude, result.longitude, "geocoding"),
              NoError)
  ELSE IF resp.kind \in {"ok", "nobody"}
    THEN ChainStep("throw", NoLocation, LocationNotFoundError(locationInput.value))
  ELSE IF resp.kind = "malformed"
    THEN ChainStep("throw", NoLocation, TypeError)
  ELSE IF resp.status \in {404, 400}
    THEN ChainStep("throw", NoLocation, LocationNotFoundError(locationInput.value))
  ELSE ChainStep("throw", NoLocation, GeocodingServiceError(AxiosError(resp.status)))

\* resolveZipCode, second strategy: the answer of the Open-Meteo search
resolveZipCodeFallback(resp, locationInput) ==
  IF resp.kind = "ok" /\ Len(resp.results) > 0
    THEN LET result == resp.results[1]
         IN ChainStep("return",
              Location(OrElse(result.name, locationInput.value),
                       OrElse(result.country, Unknown),
                       OrElse(result.admin1, Unknown),
                       result.latitude, result.longitude, "zipcode"),
              NoError)
  ELSE IF resp.kind \in {"ok", "nobody"}
    THEN ChainStep("throw", NoLocation, LocationNotFoundError(locationInput.value))
  ELSE IF resp.kind = "malformed"
    THEN ChainStep("throw", NoLocation, TypeError)
  ELSE IF resp.status \in {404, 400}
    THEN ChainStep("throw", NoLocation, LocationNotFoundError(locationInput.value))
  ELSE ChainStep("throw", NoLocation, GeocodingServiceError(AxiosError(resp.status)))

(***************************************************************************)
(* Text chain: GeocodingService.resolveTextLocation and                    *)
(* FallbackGeocodeService.                                                 *)
(***************************************************************************)
\* the resolvedBy tag resolveTextLocation gives its own result
textResolvedBy(type) == IF type = "landmark" THEN "landmark" ELSE "geocoding"

\* resolveTextLocation, first strategy: the answer of the Open-Meteo search.
\* Whatever is thrown inside the try block is caught by its catch clause
\* and rethrown as a "Geocoding service error".
resolveTextPrimary(resp, locationInput) ==
  IF resp.kind = "ok" /\ Len(resp.results) > 0
    THEN LET result == resp.results[1]
         IN ChainStep("return",
              Location(OrElse(result.name, Unknown),
                       OrElse(result.country, Unknown),
                       OrElse(result.admin1, Unknown),
                       result.latitude, result.longitude,
                       textResolvedBy(locationInput.type)),
              NoError)
  ELSE IF resp.kind \in {"ok", "nobody"}
    THEN ChainStep("variations", NoLocation, NoError)
  ELSE IF resp.kind = "malformed"
    THEN ChainStep("throw", NoLocation, GeocodingServiceError(TypeError))
  ELSE ChainStep("throw", NoLocation, GeocodingServiceError(AxiosError(resp.status)))

\* the error that leaves resolveTextLocation when searchWithVariations threw:
\* the LocationNotFoundError thrown in the inner catch clause is thrown
\* inside the outer try block, whose catch clause wraps it
resolveTextFallbackFailure(locationInput) ==
  GeocodingServiceError(LocationNotFoundError(locationInput.value))

\* FallbackGeocodeService.buildLocationName
FallbackBuildLocationName(result) ==
  LET address == result.address
      first ==
        IF address.city # <<>> THEN <<address.city>>
        ELSE IF address.town # <<>> THEN <<address.town>>
        ELSE IF address.village # <<>> THEN <<address.village>>
        ELSE IF address.hamlet # <<>> THEN <<address.hamlet>>
        ELSE IF address.municipality # <<>> THEN <<address.municipality>>
        ELSE IF result.display_name # <<>>
          THEN <<Trim(SplitComma(result.display_name)[1])>>
        ELSE <<>>
      second ==
        IF address.state # <<>> /\ (first = <<>> \/ address.state # first[1])
          THEN <<address.state>>
        ELSE IF address.province # <<>> /\ (first = <<>> \/ address.province # first[1])
          THEN <<address.province>>
        ELSE <<>>
      parts == first \o second
               \o (IF address.country # <<>> THEN <<address.country>> ELSE <<>>)
  IN IF Len(parts) > 0 THEN JoinComma(parts)
     ELSE OrElse(result.display_name, UnknownLocation)

\* FallbackGeocodeService.getCountryName
FallbackGetCountryName(result) == OrElse(result.address.country, Unknown)

\* FallbackGeocodeService.getStateName
FallbackGetStateName(result) ==
  OrElse(result.address.state,
         OrElse(result.address.province, OrElse(result.address.region, Unknown)))

\* FallbackGeocodeService.searchLocation once the request is answered
searchLocation(resp, query) ==
  IF resp.kind = "ok" /\ Len(resp.results) > 0
    THEN LET result == resp.results[1]
         IN ChainStep("return",
              Location(FallbackBuildLocationName(result),
                       FallbackGetCountryName(result),
                       FallbackGetStateName(result),
                       ParseFloat(result.lat), ParseFloat(result.lon),
                       "geocoding"),
              NoError)
  ELSE IF resp.kind \in {"ok", "malformed"}
    THEN ChainStep("throw", NoLocation, PlainError(<<"No results found">>, <<>>))
  ELSE IF resp.kind = "nobody"
    THEN ChainStep("throw", NoLocation, TypeError)
  ELSE ChainStep("throw", NoLocation, AxiosError(resp.status))

\* a variant of searchWithVariationsTurn that returns whatever searchLocation
\* returned, the placeholder name included
searchWithVariationsTurnAny(resp, query) == searchLocation(resp, query)

\* one turn of the loop of searchWithVariations: the result of the query is
\* returned, or the loop goes on
searchWithVariationsTurn(resp, query) ==
  LET r == searchLocation(resp, query)
  IN IF r.next = "return" /\ r.location.name # UnknownLocation
       THEN r
       ELSE ChainStep("continue", NoLocation, NoError)


(***************************************************************************)
(* The state machine of one request.                                       *)
(***************************************************************************)
\* sample inputs: a decimal pair, pairs out of range, a word, postal codes,
\* a landmark, a misspelt city, an address with blanks around it, a DMS pair,
\* a name that is a key and a correction of the misspelling table
InCoords == <<"5", "1", ".", "5", ",", "-", "0", ".", "1", "2">>
InLatHigh == <<"9", "1", ",", "0">>
InLonHigh == <<"1", "0", ";", "1", "8", "1">>
InWord == <<"a", "b", "c">>
InZip == <<"1", "2", "3", "4", "5">>
InCep == <<"0", "1", "3", "1", "0", "1", "0", "0">>
InLandmark == <<"C", "e", "n", "t", "r", "a", "l", " ", "P", "a", "r", "k">>
InCity == <<"t", "o", "k", "i", "o">>
InAddress == <<" ", "R", "u", "a", " ", "5", " ">>
InDms == <<"1", "0", "deg", "3", "0", "'", "0", "\"", "S", " ", "2", "0", "deg", "1", "5", "'", "W">>
InJapan == <<"j", "a", "p", "a", "n">>

Inputs ==
  {InCoords, InLatHigh, InLonHigh, InWord, InZip, InCep, InLandmark, InCity, InAddress,
   InDms, InJapan}

\* locationType: absent, or one of the values of locationTypeEnum
Hints == {"none", "auto", "coordinates", "zipcode", "landmark", "city", "address"}

\* ZIPCODEBASE_API_KEY: unset or set
ApiKeys == {<<>>, <<"k">>}

VARIABLES
  apiKey,         \* ZipCodeBaseService.apiKey, read once at construction
  input,          \* the location string of the request
  hint,           \* the locationType of the request
  pc,             \* where the call stands
  locationInput,  \* the LocationInput handed to resolveByType
  lat, lon,       \* the coordinates resolveCoordinates parsed
  queries,        \* the query variations of searchWithVariations
  qi,             \* index of the variation being tried
  requests,       \* the provider requests sent so far, in order
  lastAnswer,     \* the latest provider answer received
  answered,       \* the number of provider answers received so far
  hitSeen,        \* some answer received so far carried a hit
  revResult,      \* what reverseGeocode returned (or that it threw)
  outcome,        \* what resolveLocation returned or threw
  httpStatus,     \* the status of the HTTP response, 0 before it is sent
  calls,          \* the local state of each of the calls running concurrently
  sample,         \* the argument a helper is applied to on its own
  result,         \* what the helper returned, <<>> before it is applied
  search          \* the state of a POST /search request, <<>> when none runs

\* the state of one request
callVars == <<apiKey, input, hint, pc, locationInput, lat, lon, queries, qi,
              requests, lastAnswer, answered, hitSeen, revResult, outcome,
              httpStatus>>

\* the state used when two calls run concurrently, a helper runs on its own
\* or the search route runs
aside == <<calls, sample, result, search>>

vars == <<callVars, aside>>

Request(provider, op, query) == [provider |-> provider, op |-> op, query |-> query]

\* what the log keeps of an answer: its kind, its status, the number of
\* candidates, and whether the best candidate of a ZipCodeBase answer comes
\* without country_code
Answer(resp) ==
  [kind |-> resp.kind, status |-> resp.status, hits |-> Len(resp.results),
   uncoded |-> /\ resp.results # <<>>
               /\ "country_code" \in DOMAIN resp.results[1]
               /\ getBestResult(resp.results).results[1].country_code = Missing]

NoAnswer == [kind |-> "none", status |-> 0, hits |-> 0, uncoded |-> FALSE]

Outcome(kind, location, error) ==
  [kind |-> kind, location |-> location, error |-> error]

Pending == Outcome("pending", NoLocation, NoError)

NoReverse == [done |-> FALSE, raised |-> FALSE, value |-> NoDetails]

Init ==
  /\ apiKey \in ApiKeys
  /\ input \in Inputs
  /\ hint \in Hints
  /\ pc = "start"
  /\ locationInput = classify(input, hint)
  /\ lat = Undefined
  /\ lon = Undefined
  /\ queries = <<>>
  /\ qi = 0
  /\ requests = <<>>
  /\ lastAnswer = NoAnswer
  /\ answered = 0
  /\ hitSeen = FALSE
  /\ revResult = NoReverse
  /\ outcome = Pending
  /\ httpStatus = 0
  /\ calls = <<>>
  /\ sample = <<>>
  /\ result = <<>>
  /\ search = <<>>

Returns(location) ==
  /\ pc' = "returned"
  /\ outcome' = Outcome("returned", location, NoError)

Throws(error) ==
  /\ pc' = "threw"
  /\ outcome' = Outcome("threw", NoLocation, error)

Received(resp) ==
  /\ lastAnswer' = Answer(resp)
  /\ answered' = answered + 1
  /\ hitSeen' = (hitSeen \/ Len(resp.results) > 0)

Awaits(label, request) ==
  /\ pc' = label
  /\ requests' = Append(requests, request)
  /\ outcome' = outcome

\* a variant of ResolveCoordinates that races the two reverse providers:
\* both requests are sent before either is awaited
ResolveCoordinatesRacing ==
  /\ pc = "start"
  /\ UNCHANGED aside
  /\ chainOf(locationInput.type) = "coordinates"
  /\ LET c == parseCoordinates(locationInput.normalized)
     IN IF coordinatesRejected(c.lat, c.lon)
          THEN /\ Throws(InvalidCoordinatesError)
               /\ UNCHANGED <<lat, lon, requests>>
          ELSE /\ lat' = c.lat
               /\ lon' = c.lon
               /\ pc' = "rev_nominatim"
               /\ requests' = requests \o
                    << Request("nominatim", "reverse", CoordString(c.lat, c.lon)),
                       Request("open-meteo", "search-coords", CoordString(c.lat, c.lon)) >>
               /\ outcome' = outcome
  /\ UNCHANGED <<apiKey, input, hint, locationInput, queries, qi, lastAnswer, answered,
                 hitSeen, revResult, httpStatus>>

\* resolveCoordinates up to its first await: parse, validate, and call
\* NominatimService.reverseGeocode
ResolveCoordinates ==
  /\ pc = "start"
  /\ UNCHANGED aside
  /\ chainOf(locationInput.type) = "coordinates"
  /\ LET c == parseCoordinates(locationInput.normalized)
     IN IF coordinatesRejected(c.lat, c.lon)
          THEN /\ Throws(InvalidCoordinatesError)
               /\ UNCHANGED <<lat, lon, requests>>
          ELSE /\ lat' = c.lat
               /\ lon' = c.lon
               /\ Awaits("rev_nominatim",
                    Request("nominatim", "reverse", CoordString(c.lat, c.lon)))
  /\ UNCHANGED <<apiKey, input, hint, locationInput, queries, qi, lastAnswer, answered,
                 hitSeen, revResult, httpStatus>>

\* reverseGeocode has its value: resolveCoordinates returns the location
ReverseReturns(step) ==
  /\ revResult' = [done |-> TRUE, raised |-> step.raised, value |-> step.value]
  /\ Returns(coordinatesLocation(step, lat, lon))
  /\ requests' = requests

NominatimReverseResponds ==
  /\ pc = "rev_nominatim"
  /\ UNCHANGED aside
  /\ \E resp \in NominatimReverseResponses :
       /\ Received(resp)
       /\ LET step == reverseGeocodePrimary(resp, lat, lon)
          IN IF step.next = "return"
               THEN ReverseReturns(step)
               ELSE /\ Awaits("rev_openmeteo",
                         Request("open-meteo", "search-coords", CoordString(lat, lon)))
                    /\ revResult' = revResult
  /\ UNCHANGED <<apiKey, input, hint, locationInput, lat, lon, queries, qi, httpStatus>>

OpenMeteoReverseResponds ==
  /\ pc = "rev_openmeteo"
  /\ UNCHANGED aside
  /\ \E resp \in OpenMeteoResponses :
       /\ Received(resp)
       /\ LET step == reverseGeocodeOpenMeteo(resp, lat, lon)
          IN IF step.next = "return"
               THEN ReverseReturns(step)
               ELSE /\ Awaits("rev_broad",
                         Request("open-meteo", "search-name", CoordString(lat, lon)))
                    /\ revResult' = revResult
  /\ UNCHANGED <<apiKey, input, hint, locationInput, lat, lon, queries, qi, httpStatus>>

BroadSearchResponds ==
  /\ pc = "rev_broad"
  /\ UNCHANGED aside
  /\ \E resp \in OpenMeteoResponses :
       /\ Received(resp)
       /\ ReverseReturns(fallbackReverseGeocode(resp, lat, lon))
  /\ UNCHANGED <<apiKey, input, hint, locationInput, lat, lon, queries, qi, httpStatus>>

\* a variant of ResolveZipCode in which the key is required: without a key
\* the call fails before any request is sent
ResolveZipCodeKeyRequired ==
  /\ pc = "start"
  /\ UNCHANGED aside
  /\ chainOf(locationInput.type) = "zipcode"
  /\ IF apiKey # <<>>
       THEN Awaits("zip_primary",
              Request("zipcodebase", "search-codes",
                      normalizePostalCode(locationInput.normalized)))
       ELSE /\ Throws(PlainError(<<"ZipCodeBase API key not configured">>, <<>>))
            /\ requests' = requests
  /\ UNCHANGED <<apiKey, input, hint, locationInput, lat, lon, queries, qi,
                 lastAnswer, answered, hitSeen, revResult, httpStatus>>

\* resolveZipCode up to its first await: the ZipCodeBase request when the
\* service is available (searchPostalCode checks the key once more before it
\* sends anything), else the Open-Meteo request
ResolveZipCode ==
  /\ pc = "start"
  /\ UNCHANGED aside
  /\ chainOf(locationInput.type) = "zipcode"
  /\ IF isAvailable(apiKey) /\ apiKey # <<>>
       THEN Awaits("zip_primary",
              Request("zipcodebase", "search-codes",
                      normalizePostalCode(locationInput.normalized)))
       ELSE Awaits("zip_fallback",
              Request("open-meteo", "search-name", locationInput.normalized))
  /\ UNCHANGED <<apiKey, input, hint, locationInput, lat, lon, queries, qi,
                 lastAnswer, answered, hitSeen, revResult, httpStatus>>

\* a variant of ZipCodeBaseResponds in which an error of searchPostalCode
\* leaves resolveZipCode instead of being caught
ZipCodeBaseRespondsSurfaces ==
  /\ pc = "zip_primary"
  /\ UNCHANGED aside
  /\ \E resp \in ZipCodeBaseResponses :
       /\ Received(resp)
       /\ LET step == resolveZipCodePrimary(resp, locationInput)
              r    == searchPostalCode(resp, locationInput.normalized)
          IN IF step.next = "return"
               THEN Returns(step.location) /\ requests' = requests
             ELSE IF r.threw
               THEN Throws(r.error) /\ requests' = requests
             ELSE Awaits("zip_fallback",
                    Request("open-meteo", "search-name", locationInput.normalized))
  /\ UNCHANGED <<apiKey, input, hint, locationInput, lat, lon, queries, qi,
                 revResult, httpStatus>>

ZipCodeBaseResponds ==
  /\ pc = "zip_primary"
  /\ UNCHANGED aside
  /\ \E resp \in ZipCodeBaseResponses :
       /\ Received(resp)
       /\ LET step == resolveZipCodePrimary(resp, locationInput)
          IN IF step.next = "return"
               THEN Returns(step.location) /\ requests' = requests
               ELSE Awaits("zip_fallback",
                      Request("open-meteo", "search-name", locationInput.normalized))
  /\ UNCHANGED <<apiKey, input, hint, locationInput, lat, lon, queries, qi,
                 revResult, httpStatus>>

ZipFallbackResponds ==
  /\ pc = "zip_fallback"
  /\ UNCHANGED aside
  /\ \E resp \in OpenMeteoResponses :
       /\ Received(resp)
       /\ LET step == resolveZipCodeFallback(resp, locationInput)
          IN IF step.next = "return"
               THEN Returns(step.location)
               ELSE Throws(step.error)
  /\ UNCHANGED <<apiKey, input, hint, locationInput, lat, lon, queries, qi,
                 requests, revResult, httpStatus>>

\* resolveTextLocation up to its first await: the Open-Meteo request
ResolveTextLocation ==
  /\ pc = "start"
  /\ UNCHANGED aside
  /\ chainOf(locationInput.type) = "text"
  /\ Awaits("text_primary",
            Request("open-meteo", "search-name", locationInput.normalized))
  /\ UNCHANGED <<apiKey, input, hint, locationInput, lat, lon, queries, qi,
                 lastAnswer, answered, hitSeen, revResult, httpStatus>>

\* the loop of searchWithVariations reaches index k of the list qs: the
\* next query is sent, or the list is exhausted and the call fails
VariationLoop(qs, k) ==
  IF k <= Len(qs)
    THEN Awaits("text_variation", Request("nominatim", "search-q", qs[k]))
    ELSE Throws(resolveTextFallbackFailure(locationInput)) /\ requests' = requests

TextPrimaryResponds ==
  /\ pc = "text_primary"
  /\ UNCHANGED aside
  /\ \E resp \in OpenMeteoResponses :
       /\ Received(resp)
       /\ LET step == resolveTextPrimary(resp, locationInput)
          IN IF step.next = "return"
               THEN Returns(step.location) /\ requests' = requests
                    /\ UNCHANGED <<queries, qi>>
             ELSE IF step.next = "throw"
               THEN Throws(step.error) /\ requests' = requests
                    /\ UNCHANGED <<queries, qi>>
             ELSE /\ queries' = generateQueryVariations(locationInput.value)
                  /\ qi' = 1
                  /\ VariationLoop(queries', 1)
  /\ UNCHANGED <<apiKey, input, hint, locationInput, lat, lon, revResult, httpStatus>>

VariationResponds ==
  /\ pc = "text_variation"
  /\ UNCHANGED aside
  /\ \E resp \in NominatimSearchResponses :
       /\ Received(resp)
       /\ LET step == searchWithVariationsTurn(resp, queries[qi])
          IN IF step.next = "return"
               THEN Returns(step.location) /\ requests' = requests /\ qi' = qi
               ELSE qi' = qi + 1 /\ VariationLoop(queries, qi + 1)
  /\ UNCHANGED <<apiKey, input, hint, locationInput, lat, lon, queries,
                 revResult, httpStatus>>

\* the route handler answers with the resolved location
SendLocation ==
  /\ pc = "returned"
  /\ UNCHANGED aside
  /\ pc' = "responded"
  /\ httpStatus' = 200
  /\ UNCHANGED <<apiKey, input, hint, locationInput, lat, lon, queries, qi,
                 requests, lastAnswer, answered, hitSeen, revResult, outcome>>

\* asyncHandler passes the error to errorHandler, which answers
HandleError ==
  /\ pc = "threw"
  /\ UNCHANGED aside
  /\ pc' = "responded"
  /\ httpStatus' = errorHandler(outcome.error)
  /\ UNCHANGED <<apiKey, input, hint, locationInput, lat, lon, queries, qi,
                 requests, lastAnswer, answered, hitSeen, revResult, outcome>>

Next ==
  \/ ResolveCoordinates
  \/ NominatimReverseResponds
  \/ OpenMeteoReverseResponds
  \/ BroadSearchResponds
  \/ ResolveZipCode
  \/ ZipCodeBaseResponds
  \/ ZipFallbackResponds
  \/ ResolveTextLocation
  \/ TextPrimaryResponds
  \/ VariationResponds
  \/ SendLocation
  \/ HandleError

Spec == Init /\ [][Next]_vars

(***************************************************************************)
(* The helpers on their own: a helper is applied to one argument drawn     *)
(* from a bounded set.                                                     *)
(***************************************************************************)
\* no request is running
IdleCall ==
  /\ input = <<>>
  /\ hint = "none"
  /\ pc = "idle"
  /\ locationInput = LocationInput("unknown", <<>>, <<>>)
  /\ lat = Undefined
  /\ lon = Undefined
  /\ queries = <<>>
  /\ qi = 0
  /\ requests = <<>>
  /\ lastAnswer = NoAnswer
  /\ answered = 0
  /\ hitSeen = FALSE
  /\ revResult = NoReverse
  /\ outcome = Pending
  /\ httpStatus = 0

\* every string of at most n characters of the alphabet
StringsUpTo(alphabet, n) == UNION {[1..k -> alphabet] : k \in 0..n}

\* characters of coordinate pairs, blanks, and the letters of 'bar'
DetectAlphabet == {"1", ",", "-", ".", " ", "b", "a", "r"}

\* digits of the postal codes tried
ZipDigits == {"0", "7"}

\* five digits, and five digits, a dash and four digits
ZipShaped ==
  [1..5 -> ZipDigits]
    \cup {a \o <<"-">> \o b : a \in [1..5 -> ZipDigits], b \in [1..4 -> ZipDigits]}

DetectInputs == StringsUpTo(DetectAlphabet, MaxLen) \cup ZipShaped

InitDetect ==
  /\ IdleCall
  /\ apiKey = <<>>
  /\ calls = <<>>
  /\ sample \in DetectInputs
  /\ result = <<>>
  /\ search = <<>>

\* detectLocationType is applied to the sample
ApplyDetect ==
  /\ result = <<>>
  /\ result' = <<detectLocationType(sample)>>
  /\ UNCHANGED <<callVars, calls, sample, search>>

NextDetect == ApplyDetect

SpecDetect == InitDetect /\ [][NextDetect]_vars

\* characters of decimal and alternative-separator pairs
CoordAlphabet == {"0", "1", ",", ";", "-", ".", " "}

\* one half of a DMS expression: degrees, minutes, optional seconds with an
\* optional mark, and a hemisphere letter
DmsHalves(hemis) ==
  {<<"1", "0", "deg">> \o min \o <<mark>> \o sec \o smark \o <<h>> :
     min \in {<<"0">>, <<"3", "0">>},
     mark \in {"'", "prime"},
     sec \in {<<>>, <<"3", "6">>, <<".">>},
     smark \in {<<>>, <<"\"">>},
     h \in hemis}

DmsInputs ==
  {a \o <<" ">> \o b : a \in DmsHalves({"N", "s"}), b \in DmsHalves({"E", "W"})}

NormalizeInputs == StringsUpTo(CoordAlphabet, MaxLen) \cup DmsInputs \cup Inputs

InitNormalize ==
  /\ IdleCall
  /\ apiKey = <<>>
  /\ calls = <<>>
  /\ sample \in NormalizeInputs
  /\ result = <<>>
  /\ search = <<>>

\* normalizeCoordinates is applied to the sample
ApplyNormalize ==
  /\ result = <<>>
  /\ result' = <<normalizeCoordinates(sample)>>
  /\ UNCHANGED <<callVars, calls, sample, search>>

NextNormalize == ApplyNormalize

SpecNormalize == InitNormalize /\ [][NextNormalize]_vars

\* candidates of ZipCodeBase: each field missing, blank or filled, the
\* latitude also out of range or not a number
ScoreCandidates ==
  {ZipCodeBaseResult(<<"0", "7", "0", "7", "0">>, cc, la, lo, city, state, <<>>, province) :
     cc \in {Missing, <<>>, <<"B", "R">>},
     la \in {<<>>, <<"1", "0">>, <<"9", "5">>, <<"x">>},
     lo \in {<<>>, <<"2", "0">>},
     city \in {<<>>, <<" ">>, <<"S", "P">>},
     state \in {<<>>, <<"S", "P">>},
     province \in {<<>>, <<"S", "P">>}}

\* the fields calculateResultScore looks at
ScoredFields == {"coordinates", "city", "state", "province", "country_code"}

\* the candidate without the field given
WithoutField(candidate, field) ==
  IF field = "coordinates"
    THEN [candidate EXCEPT !.latitude = <<>>, !.longitude = <<>>]
    ELSE [candidate EXCEPT ![field] = <<>>]

InitScore ==
  /\ IdleCall
  /\ apiKey = <<>>
  /\ calls = <<>>
  /\ sample \in [full : ScoreCandidates, field : ScoredFields]
  /\ result = <<>>
  /\ search = <<>>

\* calculateResultScore is applied to the candidate and to the candidate
\* without the field
ApplyScore ==
  /\ result = <<>>
  /\ result' = <<calculateResultScore(sample.full),
                 calculateResultScore(WithoutField(sample.full, sample.field))>>
  /\ UNCHANGED <<callVars, calls, sample, search>>

NextScore == ApplyScore

SpecScore == InitScore /\ [][NextScore]_vars

\* queries generateQueryVariations is applied to: one or two words, among
\* them keys of the table, corrections, suffixes, and capitals
QueryWords ==
  { <<"t", "o", "k", "i", "o">>, <<"t", "o", "k", "y", "o">>, <<"J", "a", "p", "a", "n">>,
    <<"j", "a", "p", "a", "n">>, <<"p", "a", "r", "i", "s">>,
    <<"n", "e", "w", " ", "y", "o", "r", "k">>, <<"C", "i", "t", "y">>,
    <<"t", "o", "w", "n">>, <<"v", "i", "l", "l", "a", "g", "e">>,
    <<"c", "o", "u", "n", "t", "r", "y">>, <<"x">> }

QueryInputs ==
  QueryWords \cup {v \o <<" ">> \o w : v \in QueryWords, w \in QueryWords}

InitVariations ==
  /\ IdleCall
  /\ apiKey = <<>>
  /\ calls = <<>>
  /\ sample \in QueryInputs
  /\ result = <<>>
  /\ search = <<>>

ApplyVariations ==
  /\ result = <<>>
  /\ result' = <<generateQueryVariations(sample)>>
  /\ UNCHANGED <<callVars, calls, sample, search>>

NextVariations == ApplyVariations

SpecVariations == InitVariations /\ [][NextVariations]_vars

\* values of the name fields of a Nominatim result: absent or one of three
\* place names
PlaceNames == {<<>>, <<"A">>, <<"B">>, <<"C">>}

\* results buildLocationName is applied to: every combination of the six
\* name fields, without state and country
NameCandidates ==
  {NominatimResult(f[1], <<"D">>, <<"0">>, <<"0">>,
     NominatimAddress(f[6], f[2], f[5], f[3], f[4], <<>>, <<>>, <<>>)) :
   f \in [1..6 -> PlaceNames]}

InitBuildName ==
  /\ IdleCall
  /\ apiKey = <<>>
  /\ calls = <<>>
  /\ sample \in NameCandidates
  /\ result = <<>>
  /\ search = <<>>

ApplyBuildName ==
  /\ result = <<>>
  /\ result' = <<NominatimBuildLocationName(sample)>>
  /\ UNCHANGED <<callVars, calls, sample, search>>

NextBuildName == ApplyBuildName

SpecBuildName == InitBuildName /\ [][NextBuildName]_vars

\* candidates getBestResult chooses among: scores 10, 8, 8, 10 and 0, the
\* candidates of equal score differing in their fields
BestCandidates ==
  { ZipCodeBaseResult(<<"1">>, <<>>, <<>>, <<>>, <<"S", "P">>, <<>>, <<>>, <<>>),
    ZipCodeBaseResult(<<"2">>, <<>>, <<>>, <<>>, <<>>, <<"S", "P">>, <<>>, <<>>),
    ZipCodeBaseResult(<<"3">>, <<"B", "R">>, <<>>, <<>>, <<>>, <<>>, <<>>, <<"S", "P">>),
    ZipCodeBaseResult(<<"4">>, <<>>, <<>>, <<>>, <<"R", "J">>, <<>>, <<>>, <<>>),
    ZipCodeBaseResult(<<"5">>, <<>>, <<"x">>, <<"0">>, <<>>, <<>>, <<>>, <<>>) }

InitBest ==
  /\ IdleCall
  /\ apiKey = <<>>
  /\ calls = <<>>
  /\ sample \in SeqsUpTo(BestCandidates, MaxHits + 1)
  /\ result = <<>>
  /\ search = <<>>

ApplyBest ==
  /\ result = <<>>
  /\ result' = <<getBestResult(sample)>>
  /\ UNCHANGED <<callVars, calls, sample, search>>

NextBest == ApplyBest

SpecBest == InitBest /\ [][NextBest]_vars

(***************************************************************************)
(* POST /api/weather/search: validate the body, resolve the location,      *)
(* fetch the weather, ask for video suggestions, save the record, answer.  *)
(***************************************************************************)
Video(title, url, thumbnail, channelTitle) ==
  [title |-> title, url |-> url, thumbnail |-> thumbnail, channelTitle |-> channelTitle]

VidGood == Video(<<"t">>, <<"u">>, <<"i">>, <<"c">>)
VidNoUrl == Video(<<"t">>, <<>>, <<"i">>, <<"c">>)

\* kind "ok": response.data.videos is the list given; "nobody": the body has
\* no videos array
YouTubeResponses ==
  {Response("ok", 200, r) : r \in SeqsUpTo({VidGood, VidNoUrl}, MaxHits)}
    \cup FailureResponses

\* YouTubeService.searchThingsToDo once the request is answered: the videos,
\* or the empty list for an error, a timeout, a body without a videos array
\* or a video that lacks a field
searchThingsToDo(resp) ==
  IF /\ resp.kind = "ok"
     /\ \A i \in DOMAIN resp.results :
          /\ resp.results[i].title # <<>>
          /\ resp.results[i].url # <<>>
          /\ resp.results[i].thumbnail # <<>>
          /\ resp.results[i].channelTitle # <<>>
    THEN resp.results
    ELSE <<>>

\* a <= b on strings of digits and dashes
RECURSIVE StringLeq(_, _)
StringLeq(a, b) ==
  IF a = <<>> THEN TRUE
  ELSE IF b = <<>> THEN FALSE
  ELSE IF a[1] = b[1] THEN StringLeq(Tail(a), Tail(b))
  ELSE a[1] = "-" \/ (b[1] # "-" /\ DigitVal(a[1]) < DigitVal(b[1]))

\* /^\d{4}-\d{2}-\d{2}$/.test(s)
dateRegex(s) ==
  /\ Len(s) = 10
  /\ \A i \in 1..10 : IF i \in {5, 8} THEN s[i] = "-" ELSE IsDigit(s[i])

\* the fields of a string of that shape
DateYear(s) == DigitsValue(s, 1, 4)
DateMonth(s) == DigitsValue(s, 6, 7)
DateDay(s) == DigitsValue(s, 9, 10)

\* !isNaN(new Date(s + 'T00:00:00.000Z').getTime()) for a string of the shape:
\* the month is 01..12 and the day 01..31, whatever the month
IsValidDate(s) ==
  /\ DateMonth(s) \in 1..12
  /\ DateDay(s) \in 1..31

DaysInMonth(year, month) ==
  IF month = 2
    THEN IF year % 4 = 0 /\ (year % 100 # 0 \/ year % 400 = 0) THEN 29 ELSE 28
  ELSE IF month \in {4, 6, 9, 11} THEN 30
  ELSE 31

\* date.toISOString().split('T')[0] for the years 0000..9999
FormatDate(year, month, day) ==
  <<DigitChar(year \div 1000), DigitChar((year \div 100) % 10),
    DigitChar((year \div 10) % 10), DigitChar(year % 10), "-",
    DigitChar(month \div 10), DigitChar(month % 10), "-",
    DigitChar(day \div 10), DigitChar(day % 10)>>

\* the calendar day new Date(...) makes of a year, a month and a day of
\* 1..31: a day past the end of the month runs into the next month
CalendarDay(year, month, day) ==
  IF day <= DaysInMonth(year, month)
    THEN FormatDate(year, month, day)
    ELSE FormatDate(year, month + 1, day - DaysInMonth(year, month))

DateResult(threw, value, error) == [threw |-> threw, value |-> value, error |-> error]

\* normalizeDateString: the date as its UTC calendar day, or an error
normalizeDateString(dateString) ==
  IF dateString = Missing \/ dateString = <<>>
    THEN DateResult(TRUE, <<>>, PlainError(<<"Invalid date string">>, <<>>))
  ELSE IF ~dateRegex(dateString)
    THEN DateResult(TRUE, <<>>, PlainError(<<"Date must be in YYYY-MM-DD format">>, <<>>))
  ELSE IF ~IsValidDate(dateString)
    THEN DateResult(TRUE, <<>>, PlainError(<<"Invalid date">>, <<>>))
  ELSE DateResult(FALSE,
                  CalendarDay(DateYear(dateString), DateMonth(dateString), DateDay(dateString)),
                  NoError)

\* the day of maxFuture: setFullYear(today.getFullYear() + 1) on the day of
\* the run (the clock read in UTC); 29 February runs into 1 March
maxFuture(today) == CalendarDay(DateYear(today) + 1, DateMonth(today), DateDay(today))

\* the schema dateString: the regex and the two refinements; parsed is
\* midnight UTC, so parsed <= maxFuture compares the calendar days
dateString(date, today) ==
  /\ date # Missing
  /\ dateRegex(date)
  /\ IsValidDate(date)
  /\ StringLeq(CalendarDay(DateYear(date), DateMonth(date), DateDay(date)), maxFuture(today))

\* the values of locationTypeEnum
locationTypeEnum == {"auto", "coordinates", "zipcode", "landmark", "city", "address"}

DateEarly == <<"2", "0", "2", "4", "-", "0", "1", "-", "0", "5">>
DateLate == <<"2", "0", "2", "4", "-", "0", "1", "-", "0", "9">>
DateRolling == <<"2", "0", "2", "4", "-", "0", "2", "-", "3", "0">>
DateMarch == <<"2", "0", "2", "4", "-", "0", "3", "-", "0", "1">>
DateNoMonth == <<"2", "0", "2", "4", "-", "1", "3", "-", "4", "5">>
DateNextYear == <<"2", "0", "2", "5", "-", "0", "3", "-", "0", "1">>
DateFar == <<"2", "0", "2", "5", "-", "0", "3", "-", "0", "2">>

\* the days on which the requests arrive
Todays == {<<"2", "0", "2", "4", "-", "0", "2", "-", "2", "9">>,
           <<"2", "0", "2", "3", "-", "0", "6", "-", "1", "5">>}

\* req.body: a member that is not sent is Missing (the empty string is <<>>),
\* a locationType that is not sent is "none"
SearchBody(location, locationType, start, end) ==
  [location |-> location, locationType |-> locationType, start |-> start, end |-> end]

\* request bodies: with and without a location, with a type of the enum, one
\* outside it or none, without dates, with empty dates, with a range, a
\* range in the wrong order, a start date only, a day past the end of its
\* month, a month that does not exist, dates a year ahead and beyond
SearchBodies ==
  {SearchBody(l, t, d[1], d[2]) :
     l \in {<<>>, InCity},
     t \in {"none", "city", "place"},
     d \in {<<Missing, Missing>>, << <<>>, <<>> >>, <<DateEarly, DateLate>>,
            <<DateLate, DateEarly>>, <<DateEarly, Missing>>,
            <<DateRolling, DateMarch>>, <<DateNoMonth, DateNoMonth>>,
            <<DateNextYear, DateNextYear>>, <<DateFar, DateFar>>}}

\* searchSchema.parse accepts the body on the day given
searchSchemaAccepts(body, today) ==
  /\ body.location # Missing
  /\ Len(body.location) >= 1
  /\ body.locationType \in locationTypeEnum \cup {"none"}
  /\ body.start = Missing \/ dateString(body.start, today)
  /\ body.end = Missing \/ dateString(body.end, today)
  /\ (body.start = Missing) = (body.end = Missing)
  /\ (body.start # Missing /\ body.end # Missing) => StringLeq(body.start, body.end)

ZodError == MakeError("ZodError", FALSE, 0, FALSE, 0, <<"Validation Error">>, <<>>)

\* resolveTextLocation, first strategy, over every answer of the Open-Meteo
\* search
resolveTextPrimaryOutcomes(classified) ==
  {resolveTextPrimary(resp, classified) : resp \in OpenMeteoResponses}

\* searchWithVariations over every answer of Nominatim to every query of the
\* list: a turn returns its result after the turns before it found nothing,
\* or no turn does and resolveTextLocation throws
searchWithVariationsOutcomes(classified) ==
  {step \in {searchWithVariationsTurn(resp, generateQueryVariations(classified.value)[k]) :
               resp \in NominatimSearchResponses,
               k \in DOMAIN generateQueryVariations(classified.value)} :
     step.next = "return"}
    \cup {ChainStep("throw", NoLocation, resolveTextFallbackFailure(classified))}

\* what geocodingService.resolveLocation(location, locationType) gives the
\* route over every answer of the providers: the locations returned and the
\* errors thrown.  The locations of SearchBodies are names, which the text
\* chain resolves.
resolveLocationOutcomes(location, locationType) ==
  With(classify(location, locationType),
       LAMBDA classified :
         IF chainOf(classified.type) # "text" THEN {}
         ELSE {step \in resolveTextPrimaryOutcomes(classified) : step.next # "variations"}
                \cup (IF \E step \in resolveTextPrimaryOutcomes(classified) :
                           step.next = "variations"
                        THEN searchWithVariationsOutcomes(classified)
                        ELSE {}))

\* the error axios rejects a request of the weather service with (timeout:
\* 15000)
WeatherAxiosError(status) ==
  MakeError("AxiosError", FALSE, 0, TRUE, status,
            IF status = 0 THEN <<"timeout of 15000ms exceeded">>
            ELSE <<"Request failed with status code">>, <<>>)

\* answers of the weather service: kind "ok" is a body with the data asked
\* for, "nobody" a body without them
WeatherResponses == {Response("ok", 200, <<>>)} \cup FailureResponses

\* WeatherData: current and daily are the data of the answer or null
WeatherData(current, daily) == [current |-> current, daily |-> daily, source |-> "open-meteo"]

NoWeather == WeatherData("none", "none")

WeatherStep(next, data, error) == [next |-> next, data |-> data, error |-> error]

\* fetchCurrentAndForecast once its request is answered: a null body raises a
\* TypeError on data.daily, which the catch throws again as it is
fetchCurrentAndForecast(resp) ==
  IF resp.kind = "ok" THEN WeatherStep("return", WeatherData("data", "data"), NoError)
  ELSE IF resp.kind = "nobody"
    THEN WeatherStep("return", WeatherData("null", "null"), NoError)
  ELSE IF resp.kind = "malformed" THEN WeatherStep("throw", NoWeather, TypeError)
  ELSE WeatherStep("throw", NoWeather,
         PlainError(<<"Weather service error: ">> \o WeatherAxiosError(resp.status).message,
                    <<>>))

\* fetchHistoricalWeather after the answers received so far: the forecast
\* request first, the archive request when the forecast request was rejected
fetchHistoricalWeather(startDate, endDate, answers) ==
  LET resp == answers[Len(answers)]
  IN IF normalizeDateString(startDate).threw
       THEN WeatherStep("throw", NoWeather, normalizeDateString(startDate).error)
     ELSE IF normalizeDateString(endDate).threw
       THEN WeatherStep("throw", NoWeather, normalizeDateString(endDate).error)
     ELSE IF resp.kind = "ok" THEN WeatherStep("return", WeatherData("null", "data"), NoError)
     ELSE IF resp.kind = "nobody"
       THEN WeatherStep("return", WeatherData("null", "null"), NoError)
     ELSE IF resp.kind = "malformed" THEN WeatherStep("throw", NoWeather, TypeError)
     ELSE IF Len(answers) = 1 THEN WeatherStep("archive", NoWeather, NoError)
     ELSE WeatherStep("throw", NoWeather,
            PlainError(<<"Historical weather service error: ">>
                         \o WeatherAxiosError(resp.status).message, <<>>))

\* WeatherService.fetchWeatherData after the answers received so far:
\* historical data for a date range, else current weather and forecast
fetchWeatherData(startDate, endDate, answers) ==
  IF OrElse(startDate, <<>>) # <<>> /\ OrElse(endDate, <<>>) # <<>>
    THEN fetchHistoricalWeather(startDate, endDate, answers)
    ELSE fetchCurrentAndForecast(answers[1])

\* null, as in normalizedStart || null
Null == <<"null">>

\* new Record({...})
Record(queryRaw, location, start, end, snapshot, youtubeSuggestions) ==
  [queryRaw |-> queryRaw, location |-> location,
   dateRange |-> [start |-> OrElse(start, Null), end |-> OrElse(end, Null)],
   snapshot |-> snapshot, youtubeSuggestions |-> youtubeSuggestions]

\* RecordSchema and LocationSchema: a required string is not empty, a
\* required number is a number (the videos of searchThingsToDo have their
\* four fields)
recordValidates(record) ==
  /\ record.queryRaw # <<>>
  /\ record.location.name # <<>>
  /\ record.location.country # <<>>
  /\ record.location.admin1 # <<>>
  /\ IsNumber(record.location.lat)
  /\ IsNumber(record.location.lon)
  /\ record.location.resolvedBy \in {"coords", "geocoding", "zipcode", "landmark"}

\* the error record.save() rejects with when the document does not pass the
\* schema
SaveError == MakeError("ValidationError", FALSE, 0, FALSE, 0, <<"Record validation failed">>, <<>>)

\* an error of the database: code is the error code of the server
MongoError(code) ==
  MakeError("MongoError", FALSE, 0, FALSE, code, <<"E11000 duplicate key error">>, <<>>)

\* the connection to the database failed
ConnectionError ==
  MakeError("MongoNetworkError", FALSE, 0, FALSE, 0, <<"connection closed">>, <<>>)

\* the errors the database rejects the insert of a valid document with
DatabaseErrors == {MongoError(11000), ConnectionError}

\* the error save() rejects with when the document is no longer stored
DocumentNotFoundError ==
  MakeError("DocumentNotFoundError", FALSE, 0, FALSE, 0, <<"No document found for query">>, <<>>)

\* the state of a request that has not been handled yet, on the day given:
\* weatherAnswers are the answers the running call of fetchWeatherData has
\* received, youtube is the kind of the answer to the video lookup, puts
\* holds the requests of PUT /:id that await save()
SearchRequest(body, today) ==
  [pc |-> "start", body |-> body, today |-> today, location |-> NoLocation,
   start |-> Missing, end |-> Missing, weatherAnswers |-> <<>>, weather |-> NoWeather,
   youtube |-> "none", suggestions |-> <<>>, saved |-> <<>>,
   error |-> NoError, status |-> 0, updates |-> 0, recordStatus |-> 0, puts |-> <<>>]

SearchFails(error) == [search EXCEPT !.pc = "failed", !.error = error]

InitSearch ==
  /\ IdleCall
  /\ apiKey = <<>>
  /\ calls = <<>>
  /\ sample = <<>>
  /\ result = <<>>
  /\ search \in {SearchRequest(body, today) : body \in SearchBodies, today \in Todays}

\* searchSchema.parse(req.body), then the call of resolveLocation
ValidateBody ==
  /\ search.pc = "start"
  /\ search' = IF searchSchemaAccepts(search.body, search.today)
                 THEN [search EXCEPT !.pc = "resolve"]
                 ELSE SearchFails(ZodError)
  /\ UNCHANGED <<callVars, calls, sample, result>>

\* the dates of the body normalized: start ? normalizeDateString(start) :
\* undefined, and the same for end
NormalizedDate(date) ==
  IF date = Missing \/ date = <<>> THEN DateResult(FALSE, Missing, NoError)
  ELSE normalizeDateString(date)

\* resolveLocation returns or throws; on a location the dates are normalized
\* and fetchWeatherData is called
LocationResolved ==
  /\ search.pc = "resolve"
  /\ \E step \in resolveLocationOutcomes(search.body.location, search.body.locationType) :
       search' =
         IF step.next = "throw" THEN SearchFails(step.error)
         ELSE IF NormalizedDate(search.body.start).threw
           THEN SearchFails(NormalizedDate(search.body.start).error)
         ELSE IF NormalizedDate(search.body.end).threw
           THEN SearchFails(NormalizedDate(search.body.end).error)
         ELSE [search EXCEPT !.pc = "weather", !.location = step.location,
                             !.start = NormalizedDate(search.body.start).value,
                             !.end = NormalizedDate(search.body.end).value]
  /\ UNCHANGED <<callVars, calls, sample, result>>

\* a request of fetchWeatherData is answered: it throws, sends the archive
\* request, or returns; with the weather the suggestions are asked for when
\* the location has a name, else the record is saved
WeatherFetched ==
  /\ search.pc \in {"weather", "archive"}
  /\ \E resp \in WeatherResponses :
       search' =
         With(fetchWeatherData(search.start, search.end, Append(search.weatherAnswers, resp)),
              LAMBDA w :
                IF w.next = "throw"
                  THEN [SearchFails(w.error) EXCEPT !.weatherAnswers = <<>>]
                ELSE IF w.next = "archive"
                  THEN [search EXCEPT !.pc = "archive",
                                      !.weatherAnswers = Append(search.weatherAnswers, resp)]
                ELSE [search EXCEPT !.weather = w.data,
                                    !.weatherAnswers = <<>>,
                                    !.pc = IF search.location.name # <<>>
                                             THEN "youtube" ELSE "save"])
  /\ UNCHANGED <<callVars, calls, sample, result>>

\* a variant of SuggestionsFetched in which a failed lookup fails the request
SuggestionsFetchedOrFails ==
  /\ search.pc = "youtube"
  /\ \E resp \in YouTubeResponses :
       search' = IF resp.kind = "ok"
                   THEN [search EXCEPT !.pc = "save", !.youtube = resp.kind,
                                       !.suggestions = searchThingsToDo(resp)]
                   ELSE [SearchFails(AxiosError(resp.status)) EXCEPT !.youtube = resp.kind]
  /\ UNCHANGED <<callVars, calls, sample, result>>

\* searchThingsToDo has its answer; record.save() is called
SuggestionsFetched ==
  /\ search.pc = "youtube"
  /\ \E resp \in YouTubeResponses :
       search' = [search EXCEPT !.pc = "save", !.youtube = resp.kind,
                                !.suggestions = searchThingsToDo(resp)]
  /\ UNCHANGED <<callVars, calls, sample, result>>

\* record.save() of the new record: a document that does not pass the schema
\* is rejected with a ValidationError; a valid one is inserted, or the
\* database rejects the insert
RecordSaved ==
  /\ search.pc = "save"
  /\ IF ~recordValidates(Record(search.body.location, search.location,
                                search.start, search.end,
                                search.weather, search.suggestions))
       THEN search' = SearchFails(SaveError)
       ELSE \/ search' = [search EXCEPT
                            !.pc = "created",
                            !.saved = Append(search.saved,
                                        Record(search.body.location, search.location,
                                               search.start, search.end,
                                               search.weather, search.suggestions))]
            \/ \E error \in DatabaseErrors : search' = SearchFails(error)
  /\ UNCHANGED <<callVars, calls, sample, result>>

\* res.status(201).json(...)
SendCreated ==
  /\ search.pc = "created"
  /\ search' = [search EXCEPT !.pc = "responded", !.status = 201]
  /\ UNCHANGED <<callVars, calls, sample, result>>

\* asyncHandler passes the error to errorHandler
SearchErrorHandled ==
  /\ search.pc = "failed"
  /\ search' = [search EXCEPT !.pc = "responded", !.status = errorHandler(search.error)]
  /\ UNCHANGED <<callVars, calls, sample, result>>

\* new CustomError(message, statusCode)
CustomError(message, statusCode) ==
  MakeError("Error", TRUE, statusCode, FALSE, 0, message, <<>>)

\* req.params.id of the records router: the id of the stored record, a
\* well-formed id of no record, an id that is no ObjectId
RecordIds == {"stored", "unknown", "invalid"}

\* req.body.location of PUT /:id: sent or not, with or without a name
UpdateLocation(sent, name) == [sent |-> sent, name |-> name]

LongName == [i \in 1..201 |-> "x"]

UpdateLocations ==
  {UpdateLocation(FALSE, Missing)}
    \cup {UpdateLocation(TRUE, name) : name \in {Missing, <<>>, <<"X">>, LongName}}

\* updateRecordSchema.parse accepts req.body.location (of its members the
\* route reads the name only)
updateRecordSchemaAccepts(location) ==
  /\ location.sent
  /\ location.name = Missing \/ Len(location.name) <= 200

\* Record.findById(id)
findById(records, id) == IF id = "stored" THEN records ELSE <<>>

RecordsAnswer(records, status) == [records |-> records, status |-> status]

\* router.put('/:id') before Record.findById: the error thrown, or NoError
putRecordRejects(id, location) ==
  IF id = "invalid" THEN CustomError(<<"Invalid record ID format">>, 400)
  ELSE IF ~updateRecordSchemaAccepts(location) THEN ZodError
  ELSE NoError

\* router.put('/:id') between findById and save: the document found, with
\* admin1 and name written when a name was sent
putRecord(record, location) ==
  [record |-> IF location.name # Missing
                THEN [record EXCEPT
                        !.location.admin1 = JoinComma(<<record.location.name,
                                                        record.location.admin1>>),
                        !.location.name = location.name]
                ELSE record,
   modified |-> location.name # Missing]

\* record.save() of a document found before: the document is validated, then
\* the paths modified are written to the stored document, which is missing
\* when it was deleted in between; the stored records and the status answered
saveRecord(records, put) ==
  IF ~recordValidates(put.record) THEN RecordsAnswer(records, errorHandler(SaveError))
  ELSE IF records = <<>> THEN RecordsAnswer(records, errorHandler(DocumentNotFoundError))
  ELSE IF put.modified
    THEN RecordsAnswer(<<[records[1] EXCEPT
                            !.location.admin1 = put.record.location.admin1,
                            !.location.name = put.record.location.name]>>, 200)
  ELSE RecordsAnswer(records, 200)

\* router.delete('/:id') once Record.findByIdAndDelete is answered
deleteRecord(records, id) ==
  IF findById(records, id) = <<>>
    THEN RecordsAnswer(records, errorHandler(CustomError(<<"Record not found">>, 404)))
    ELSE RecordsAnswer(<<>>, 200)

\* the most requests of the records router handled beside the search
MaxUpdates == 2

\* a request of the records router is answered
RecordsResponds(records, status) ==
  [search EXCEPT !.saved = records, !.recordStatus = status]

\* the sequence s without its member i
Without(s, i) == SubSeq(s, 1, i - 1) \o SubSeq(s, i + 1, Len(s))

\* PUT /api/records/:id up to its second await: the request is rejected, or
\* findById is answered (a document, null, an error of the database) and
\* with a document save() is called
PutRecord ==
  /\ search.updates < MaxUpdates
  /\ \E id \in RecordIds, location \in UpdateLocations :
       IF putRecordRejects(id, location) # NoError
         THEN search' = [RecordsResponds(search.saved,
                                         errorHandler(putRecordRejects(id, location)))
                           EXCEPT !.updates = search.updates + 1]
       ELSE \/ /\ findById(search.saved, id) = <<>>
               /\ search' = [RecordsResponds(search.saved,
                               errorHandler(CustomError(<<"Record not found">>, 404)))
                               EXCEPT !.updates = search.updates + 1]
            \/ /\ findById(search.saved, id) # <<>>
               /\ search' = [search EXCEPT
                               !.puts = Append(search.puts,
                                               putRecord(search.saved[1], location)),
                               !.updates = search.updates + 1]
            \/ search' = [RecordsResponds(search.saved, errorHandler(ConnectionError))
                            EXCEPT !.updates = search.updates + 1]
  /\ UNCHANGED <<callVars, calls, sample, result>>

\* save() of a request of PUT /:id is answered: the document is validated
\* and written, or the database rejects the write
PutRecordSaved ==
  /\ \E i \in DOMAIN search.puts :
       \/ search' = [RecordsResponds(saveRecord(search.saved, search.puts[i]).records,
                                     saveRecord(search.saved, search.puts[i]).status)
                       EXCEPT !.puts = Without(search.puts, i)]
       \/ /\ recordValidates(search.puts[i].record)
          /\ search' = [RecordsResponds(search.saved, errorHandler(ConnectionError))
                          EXCEPT !.puts = Without(search.puts, i)]
  /\ UNCHANGED <<callVars, calls, sample, result>>

\* DELETE /api/records/:id is handled: the request is rejected, or
\* findByIdAndDelete is answered
DeleteRecord ==
  /\ search.updates < MaxUpdates
  /\ \E id \in RecordIds :
       IF id = "invalid"
         THEN search' = [RecordsResponds(search.saved,
                           errorHandler(CustomError(<<"Invalid record ID format">>, 400)))
                           EXCEPT !.updates = search.updates + 1]
       ELSE \/ search' = [RecordsResponds(deleteRecord(search.saved, id).records,
                                          deleteRecord(search.saved, id).status)
                            EXCEPT !.updates = search.updates + 1]
            \/ search' = [RecordsResponds(search.saved, errorHandler(ConnectionError))
                            EXCEPT !.updates = search.updates + 1]
  /\ UNCHANGED <<callVars, calls, sample, result>>

NextSearch ==
  \/ ValidateBody
  \/ LocationResolved
  \/ WeatherFetched
  \/ SuggestionsFetched
  \/ RecordSaved
  \/ SendCreated
  \/ SearchErrorHandled
  \/ PutRecord
  \/ PutRecordSaved
  \/ DeleteRecord

SpecSearch == InitSearch /\ [][NextSearch]_vars

(***************************************************************************)
(* Two calls of resolveLocation on one service instance.  The locals of a  *)
(* call (its input, its LocationInput, what it parsed, its loop index)     *)
(* live in the frame of the call; the instance holds the key only.  A call *)
(* runs until its next await; the answers arrive in any order.             *)
(***************************************************************************)
Calls == {1, 2}

ConcurrentInputs == {InCoords, InZip, InCity}

\* the frame of a call at its start
Frame(in, h) ==
  [input |-> in, hint |-> h, pc |-> "start",
   locationInput |-> classify(in, h),
   lat |-> Undefined, lon |-> Undefined,
   queries |-> <<>>, qi |-> 0,
   lastAnswer |-> NoAnswer, outcome |-> Pending]

\* the frame after the call returned or threw
Returned(c, resp, location) ==
  [c EXCEPT !.pc = "returned", !.lastAnswer = Answer(resp),
            !.outcome = Outcome("returned", location, NoError)]

Threw(c, resp, error) ==
  [c EXCEPT !.pc = "threw", !.lastAnswer = Answer(resp),
            !.outcome = Outcome("threw", NoLocation, error)]

\* the frame after the call sent its next request
Awaiting(c, resp, label) ==
  [c EXCEPT !.pc = label, !.lastAnswer = Answer(resp)]

\* resolveByType up to the first await of the chain
CallBegin(key, c) ==
  IF chainOf(c.locationInput.type) = "coordinates"
    THEN LET p == parseCoordinates(c.locationInput.normalized)
         IN IF coordinatesRejected(p.lat, p.lon)
              THEN [c EXCEPT !.pc = "threw",
                             !.outcome = Outcome("threw", NoLocation, InvalidCoordinatesError)]
              ELSE [c EXCEPT !.pc = "rev_nominatim", !.lat = p.lat, !.lon = p.lon]
  ELSE IF chainOf(c.locationInput.type) = "zipcode"
    THEN [c EXCEPT !.pc = IF isAvailable(key) /\ key # <<>>
                            THEN "zip_primary" ELSE "zip_fallback"]
  ELSE [c EXCEPT !.pc = "text_primary"]

\* the loop of searchWithVariations at index k
CallVariation(c, resp, k) ==
  IF k <= Len(c.queries)
    THEN [Awaiting(c, resp, "text_variation") EXCEPT !.qi = k]
    ELSE [Threw(c, resp, resolveTextFallbackFailure(c.locationInput)) EXCEPT !.qi = k]

\* the call from the answer it awaited up to its next await or its end
CallReceive(c, resp) ==
  IF c.pc = "rev_nominatim"
    THEN LET step == reverseGeocodePrimary(resp, c.lat, c.lon)
         IN IF step.next = "return"
              THEN Returned(c, resp, coordinatesLocation(step, c.lat, c.lon))
              ELSE Awaiting(c, resp, "rev_openmeteo")
  ELSE IF c.pc = "rev_openmeteo"
    THEN LET step == reverseGeocodeOpenMeteo(resp, c.lat, c.lon)
         IN IF step.next = "return"
              THEN Returned(c, resp, coordinatesLocation(step, c.lat, c.lon))
              ELSE Awaiting(c, resp, "rev_broad")
  ELSE IF c.pc = "rev_broad"
    THEN Returned(c, resp,
           coordinatesLocation(fallbackReverseGeocode(resp, c.lat, c.lon), c.lat, c.lon))
  ELSE IF c.pc = "zip_primary"
    THEN LET step == resolveZipCodePrimary(resp, c.locationInput)
         IN IF step.next = "return"
              THEN Returned(c, resp, step.location)
              ELSE Awaiting(c, resp, "zip_fallback")
  ELSE IF c.pc = "zip_fallback"
    THEN LET step == resolveZipCodeFallback(resp, c.locationInput)
         IN IF step.next = "return"
              THEN Returned(c, resp, step.location)
              ELSE Threw(c, resp, step.error)
  ELSE IF c.pc = "text_primary"
    THEN LET step == resolveTextPrimary(resp, c.locationInput)
         IN IF step.next = "return" THEN Returned(c, resp, step.location)
            ELSE IF step.next = "throw" THEN Threw(c, resp, step.error)
            ELSE CallVariation(
                   [c EXCEPT !.queries = generateQueryVariations(c.locationInput.value)],
                   resp, 1)
  ELSE LET step == searchWithVariationsTurn(resp, c.queries[c.qi])
       IN IF step.next = "return"
            THEN Returned(c, resp, step.location)
            ELSE CallVariation(c, resp, c.qi + 1)

AwaitLabels ==
  {"rev_nominatim", "rev_openmeteo", "rev_broad", "zip_primary", "zip_fallback",
   "text_primary", "text_variation"}

\* the answers tried when two calls run: a hit, an empty answer, a timeout
ConcurrentAnswers(label) ==
  {Response("timeout", 0, <<>>)} \cup
  (IF label = "rev_nominatim"
     THEN {Response("ok", 200, <<NomFull>>), Response("nobody", 200, <<>>)}
   ELSE IF label = "zip_primary"
     THEN {Response("ok", 200, <<ZFull>>), Response("ok", 200, <<>>)}
   ELSE IF label = "text_variation"
     THEN {Response("ok", 200, <<NSGood>>), Response("ok", 200, <<>>)}
   ELSE {Response("ok", 200, <<OMCity>>), Response("ok", 200, <<>>)})

\* a variant of Locals in which the locals are kept on the instance: every
\* call reads the frame of the first one
LocalsOnInstance(frames, i) == frames[1]

\* the locals a call reads: those of its own frame
Locals(frames, i) == frames[i]

InitConcurrent ==
  /\ IdleCall
  /\ apiKey \in ApiKeys
  /\ calls \in [Calls -> {Frame(in, "none") : in \in ConcurrentInputs}]
  /\ sample = <<>>
  /\ result = <<>>
  /\ search = <<>>

\* call i runs from its entry to its first await
BeginCall(i) ==
  /\ Locals(calls, i).pc = "start"
  /\ calls' = [calls EXCEPT ![i] = CallBegin(apiKey, Locals(calls, i))]
  /\ UNCHANGED <<callVars, sample, result, search>>

\* the answer call i awaits arrives and the call runs to its next await
AnswerCall(i) ==
  /\ Locals(calls, i).pc \in AwaitLabels
  /\ \E resp \in ConcurrentAnswers(Locals(calls, i).pc) :
       calls' = [calls EXCEPT ![i] = CallReceive(Locals(calls, i), resp)]
  /\ UNCHANGED <<callVars, sample, result, search>>

NextConcurrent ==
  \/ \E i \in Calls : BeginCall(i)
  \/ \E i \in Calls : AnswerCall(i)

SpecConcurrent == InitConcurrent /\ [][NextConcurrent]_vars

(***************************************************************************)
(* Properties of the location resolution.                                  *)
(***************************************************************************)
\* the chain the request runs
chain == chainOf(locationInput.type)

\* the primary search of the text chain had no result and every query
\* variation was tried without one
TextExhausted ==
  chain = "text" /\ queries # <<>> /\ qi > Len(queries)

\* the postal chain ended on an empty answer of its last provider
PostalExhausted ==
  /\ chain = "zipcode"
  /\ outcome.kind = "threw"
  /\ lastAnswer.kind \in {"ok", "nobody"}

\* the latest answer was a timeout or a rate-limit response
TimeoutOrRateLimit ==
  \/ lastAnswer.kind = "timeout"
  \/ lastAnswer.kind = "error" /\ lastAnswer.status = 429

\* the latest request went to the last strategy of its chain
LastStrategy ==
  /\ requests # <<>>
  /\ LET last == requests[Len(requests)]
     IN \/ chain = "zipcode" /\ last.provider = "open-meteo"
        \/ chain = "coordinates" /\ last.op = "search-name"
        \/ chain = "text" /\ last.op = "search-q" /\ qi >= Len(queries)

\* C1: in the text chain, when the primary geocoder has no result and every
\* query variation fails, resolveLocation fails with the typed
\* LocationNotFoundError, which carries the input value.
ClaimC1 ==
  TextExhausted =>
    /\ outcome.kind = "threw"
    /\ outcome.error.name = "LocationNotFoundError"
    /\ outcome.error.arg = locationInput.value

\* C2: a resolution that ends because the postal chain or the text chain
\* was exhausted without a usable result is answered with status 404.
ClaimC2 ==
  (httpStatus # 0 /\ (TextExhausted \/ PostalExhausted)) => httpStatus = 404

\* C3: every location resolveLocation returns has a numeric lat within
\* [-90, 90] and a numeric lon within [-180, 180].
ClaimC3 ==
  outcome.kind = "returned" =>
    validateCoordinates(outcome.location.lat, outcome.location.lon)

\* C4: a coordinate input that resolves is returned with the lat and lon
\* parsed from the input and resolvedBy 'coords', whichever strategy of
\* reverseGeocode supplied the name.
TheoremC4 ==
  (chain = "coordinates" /\ outcome.kind = "returned") =>
    /\ outcome.location.lat = parseCoordinates(locationInput.normalized).lat
    /\ outcome.location.lon = parseCoordinates(locationInput.normalized).lon
    /\ outcome.location.resolvedBy = "coords"

\* "51.5,-0.12" resolved with a name of the broad search
WitnessC4 ==
  /\ input = InCoords
  /\ outcome.kind = "returned"
  /\ Len(requests) = 3
  /\ lastAnswer.hits > 0
  /\ outcome.location.name = OMCity.name
  /\ outcome.location.lat = Tenths(515)
  /\ outcome.location.lon = Num(((0 - 12) * Scale) \div 100)

\* C5: reverseGeocode never raises; it returns a value whatever the three
\* providers answer, and the value is the coordinate pair with 'Unknown'
\* country and admin1 when none of them produced a hit.
TheoremC5 ==
  /\ (chain = "coordinates" /\ outcome.kind = "threw") => requests = <<>>
  /\ (chain = "coordinates" /\ outcome.kind = "returned") => revResult.done
  /\ revResult.done =>
       /\ ~revResult.raised
       /\ ~hitSeen => revResult.value = EchoDetails(lat, lon)

\* the three providers were asked and the last one timed out with no hit
\* seen before
WitnessC5 ==
  /\ revResult.done
  /\ Len(requests) = 3
  /\ ~hitSeen
  /\ lastAnswer.kind = "timeout"
  /\ revResult.value = Details(CoordString(lat, lon), Unknown, Unknown)

\* C6: coordinates out of range fail the resolution with an error that is
\* not the not-found error, without any provider request, and the request
\* is answered with a 4xx status.
ClaimC6 ==
  (/\ chain = "coordinates"
   /\ pc = "responded"
   /\ coordinatesRejected(parseCoordinates(locationInput.normalized).lat,
                          parseCoordinates(locationInput.normalized).lon)) =>
    /\ outcome.kind = "threw"
    /\ outcome.error.name # "LocationNotFoundError"
    /\ requests = <<>>
    /\ httpStatus \in 400..499

\* C7: every location the postal chain returns has resolvedBy 'zipcode',
\* whether ZipCodeBase or the Open-Meteo fallback answered.
TheoremC7 ==
  (chain = "zipcode" /\ outcome.kind = "returned") =>
    outcome.location.resolvedBy = "zipcode"

\* ZipCodeBase failed and the Open-Meteo fallback answered
WitnessC7 ==
  /\ chain = "zipcode"
  /\ outcome.kind = "returned"
  /\ Len(requests) = 2
  /\ requests[1].provider = "zipcodebase"
  /\ requests[2].provider = "open-meteo"
  /\ outcome.location.resolvedBy = "zipcode"

\* C8: without a ZipCodeBase key a postal resolution sends no request to
\* ZipCodeBase and does not fail for the missing key: its first request is
\* the Open-Meteo fallback, and a hit there is returned with resolvedBy
\* 'zipcode'.
TheoremC8 ==
  (chain = "zipcode" /\ apiKey = <<>>) =>
    /\ \A k \in DOMAIN requests : requests[k].provider # "zipcodebase"
    /\ pc # "start" => (requests # <<>> /\ requests[1].provider = "open-meteo")
    /\ outcome.kind = "threw" => lastAnswer.kind # "none"
    /\ lastAnswer.hits > 0 =>
         /\ outcome.kind = "returned"
         /\ outcome.location.resolvedBy = "zipcode"

\* "12345" without a key, resolved by the fallback alone
WitnessC8 ==
  /\ apiKey = <<>>
  /\ input = InZip
  /\ chain = "zipcode"
  /\ Len(requests) = 1
  /\ lastAnswer.hits > 0
  /\ outcome.kind = "returned"
  /\ outcome.location.resolvedBy = "zipcode"
  /\ httpStatus = 200

\* C9: every location the text chain returns has resolvedBy 'landmark'
\* exactly when the type of the input is landmark and 'geocoding'
\* otherwise, from the primary geocoder and from the variation fallback.
ClaimC9 ==
  (chain = "text" /\ outcome.kind = "returned") =>
    outcome.location.resolvedBy =
      (IF locationInput.type = "landmark" THEN "landmark" ELSE "geocoding")

\* C10: a timeout or a 429 answer of a provider that is not the last
\* strategy of its chain never ends the chain: the chain ends on such an
\* answer only when it came from its last strategy.
ClaimC10 ==
  (pc \in {"returned", "threw"} /\ requests # <<>> /\ TimeoutOrRateLimit) =>
    LastStrategy


\* C11: when the last provider of the reverse chain (the broad search)
\* answers with a rate-limit response, the resolution fails with a provider
\* error; no location is returned.
ClaimC11 ==
  (/\ chain = "coordinates"
   /\ requests # <<>>
   /\ requests[Len(requests)].op = "search-name"
   /\ lastAnswer.kind = "error"
   /\ lastAnswer.status = 429) =>
    outcome.kind = "threw"

\* the location carries a placeholder instead of a value of a provider
HasPlaceholder(location) ==
  \/ location.country = Unknown
  \/ location.admin1 = Unknown
  \/ location.name \in {Unknown, UnknownLocation}

\* C12: a returned location has its name, country and admin1 from a
\* provider result; the only returned location with placeholder values is
\* the last resort of the coordinate path, which echoes lat,lon as the name.
ClaimC12 ==
  (outcome.kind = "returned" /\ HasPlaceholder(outcome.location)) =>
    /\ chain = "coordinates"
    /\ ~hitSeen
    /\ outcome.location.name = CoordString(lat, lon)


\* the first request of the chain of the type given
FirstRequestOf(type) ==
  IF type = "coordinates"
    THEN {Request("nominatim", "reverse", CoordString(lat, lon))}
  ELSE IF type = "zipcode"
    THEN {Request("zipcodebase", "search-codes",
                  normalizePostalCode(locationInput.normalized)),
          Request("open-meteo", "search-name", locationInput.normalized)}
  ELSE {Request("open-meteo", "search-name", locationInput.normalized)}

\* C14: with a hint other than 'auto' no detection runs: the type is the
\* hint, the value is the trimmed input, the coordinate normalizer is
\* applied for 'coordinates' and the postal one for 'zipcode', and the call
\* is dispatched to the chain of the hinted type; with 'auto' or no hint the
\* type is the detected one.
TheoremC14 ==
  /\ hint \notin {"none", "auto"} =>
       /\ locationInput.type = hint
       /\ locationInput.value = Trim(input)
       /\ locationInput.normalized =
            (IF hint = "coordinates" THEN normalizeCoordinates(Trim(input))
             ELSE IF hint = "zipcode" THEN normalizeZipCode(Trim(input))
             ELSE Trim(input))
       /\ pc \in {"rev_nominatim", "rev_openmeteo", "rev_broad"} => hint = "coordinates"
       /\ pc \in {"zip_primary", "zip_fallback"} => hint = "zipcode"
       /\ pc \in {"text_primary", "text_variation"} =>
            hint \in {"landmark", "city", "address"}
       /\ requests # <<>> => requests[1] \in FirstRequestOf(hint)
  /\ hint \in {"none", "auto"} =>
       /\ locationInput.type = detectLocationType(input).type
       /\ requests # <<>> => requests[1] \in FirstRequestOf(locationInput.type)

\* a coordinate pair sent to the text chain by the hint 'city'
WitnessC14 ==
  /\ input = InCoords
  /\ hint = "city"
  /\ detectLocationType(input).type = "coordinates"
  /\ locationInput.type = "city"
  /\ pc = "text_primary"
  /\ requests = <<Request("open-meteo", "search-name", InCoords)>>


\* C15: automatic classification always yields one of the five types, the
\* one of the first detector that matches in the order coordinates, postal
\* code, landmark keyword, city shape, and 'address' when none matches;
\* every string matching the decimal-pair pattern is 'coordinates'.
TheoremC15 ==
  result # <<>> =>
    LET t    == Trim(sample)
        type == result[1].type
    IN /\ type \in {"coordinates", "zipcode", "landmark", "city", "address"}
       /\ isCoordinates(t) => type = "coordinates"
       /\ (~isCoordinates(t) /\ isZipCode(t)) => type = "zipcode"
       /\ (~isCoordinates(t) /\ ~isZipCode(t) /\ isLandmark(t)) => type = "landmark"
       /\ (~isCoordinates(t) /\ ~isZipCode(t) /\ ~isLandmark(t) /\ isCity(t)) =>
            type = "city"
       /\ (~isCoordinates(t) /\ ~isZipCode(t) /\ ~isLandmark(t) /\ ~isCity(t)) =>
            type = "address"
       /\ DecimalPattern(sample) => type = "coordinates"

\* 'bar' has a landmark keyword and the shape of a city: it is a landmark
WitnessC15 ==
  /\ sample = <<"b", "a", "r">>
  /\ isLandmark(sample)
  /\ isCity(sample)
  /\ result # <<>>
  /\ result[1].type = "landmark"

\* five digits, or five digits, a dash and four digits
FiveOrNineDigits(s) ==
  \/ Len(s) = 5 /\ \A k \in 1..5 : s[k] \in Digits
  \/ /\ Len(s) = 10
     /\ s[6] = "-"
     /\ \A k \in (1..5) \cup (7..10) : s[k] \in Digits

\* C16: every string of exactly 5 digits, or of 5 digits, a dash and 4
\* digits, is classified 'zipcode' by the automatic detection.
TheoremC16 ==
  (result # <<>> /\ FiveOrNineDigits(sample)) => result[1].type = "zipcode"

\* a 5+4 code classified
WitnessC16 ==
  /\ sample = <<"0", "7", "0", "7", "0", "-", "0", "0", "7", "7">>
  /\ result # <<>>
  /\ result[1].type = "zipcode"
  /\ result[1].normalized = sample


\* C17: normalizeCoordinates is idempotent: applied to its own result it
\* returns that result.
TheoremC17 ==
  result # <<>> => normalizeCoordinates(result[1]) = result[1]

\* a DMS pair converted to a decimal pair that differs from the input
WitnessC17 ==
  /\ sample = InDms
  /\ result # <<>>
  /\ result[1] # sample
  /\ AltPattern(result[1])
  /\ ParseFloat(SplitComma(result[1])[1]) = Num(0 - (21 * Scale) \div 2)


\* C18: the postal score is monotonic: a candidate scores at least as much
\* as the same candidate with one of the five scored fields (coordinates,
\* city, state, province, country code) missing.
TheoremC18 ==
  result # <<>> => result[1] >= result[2]

\* a complete candidate against the same candidate without its province
WitnessC18 ==
  /\ result # <<>>
  /\ sample.field = "province"
  /\ sample.full.province = <<"S", "P">>
  /\ sample.full.city = <<"S", "P">>
  /\ sample.full.state = <<"S", "P">>
  /\ sample.full.country_code = <<"B", "R">>
  /\ sample.full.latitude = <<"1", "0">>
  /\ sample.full.longitude = <<"2", "0">>
  /\ result = <<41, 36>>


\* C19: the postal chain sends one and the same normalized code (the digits
\* of the input, written XXXXX-XXX when there are exactly 8) to ZipCodeBase
\* and to the Open-Meteo fallback.
ClaimC19 ==
  chain = "zipcode" =>
    \A k \in DOMAIN requests :
      requests[k].query = normalizePostalCode(locationInput.value)


\* the latest answer says 'not found': HTTP 404 or an empty result set
NotFoundAnswer ==
  \/ lastAnswer.kind = "error" /\ lastAnswer.status = 404
  \/ lastAnswer.kind \in {"ok", "nobody"} /\ lastAnswer.hits = 0

\* the latest answer is another provider error: an HTTP error status other
\* than 404, a timeout, or a malformed response
OtherErrorAnswer ==
  \/ lastAnswer.kind = "error" /\ lastAnswer.status # 404
  \/ lastAnswer.kind = "timeout"
  \/ lastAnswer.kind = "malformed"

\* the call failed with the 'Geocoding service error' wrapper
ThrewWrapped ==
  /\ outcome.kind = "threw"
  /\ outcome.error.name = "Error"
  /\ outcome.error.message # <<>>
  /\ outcome.error.message[1] = "Geocoding service error: "

\* the call failed with LocationNotFoundError for the input value
ThrewNotFound ==
  /\ outcome.kind = "threw"
  /\ outcome.error.name = "LocationNotFoundError"
  /\ outcome.error.arg = locationInput.value

\* the Open-Meteo fallback, the last provider of the postal chain, has
\* answered
ZipFallbackAnswered ==
  /\ chain = "zipcode"
  /\ pc \in {"returned", "threw", "responded"}
  /\ requests # <<>>
  /\ requests[Len(requests)].provider = "open-meteo"

\* C20: in the postal chain a 'not found' answer (HTTP 404 or an empty
\* result set) fails the resolution with LocationNotFoundError, any other
\* provider error (another HTTP error status, a timeout, a malformed
\* response) fails it with the wrapped generic error, and a location is
\* returned for a provider hit only.  The property is stated of the answer
\* that ends the chain, the answer of the Open-Meteo fallback: an answer of
\* ZipCodeBase without a usable result makes the chain fall back.
ClaimC20 ==
  /\ ZipFallbackAnswered =>
       /\ NotFoundAnswer => ThrewNotFound
       /\ OtherErrorAnswer => ThrewWrapped
  /\ (chain = "zipcode" /\ outcome.kind = "returned") =>
       (lastAnswer.kind = "ok" /\ lastAnswer.hits > 0)


\* what a call in the frame c can become when it runs alone
AloneSuccessors(key, c) ==
  IF c.pc = "start" THEN {CallBegin(key, c)}
  ELSE IF c.pc \in AwaitLabels
    THEN {CallReceive(c, resp) : resp \in ConcurrentAnswers(c.pc)}
  ELSE {}

\* what a call returned or threw agrees with its own input
OwnOutcome(c) ==
  /\ c.locationInput = classify(c.input, c.hint)
  /\ c.outcome.kind = "returned" =>
       /\ c.lastAnswer.kind # "none"
       /\ c.outcome.location.resolvedBy =
            (IF c.locationInput.type = "coordinates" THEN "coords"
             ELSE IF c.locationInput.type = "zipcode" THEN "zipcode"
             ELSE "geocoding")
       /\ c.locationInput.type = "coordinates" =>
            /\ c.outcome.location.lat = parseCoordinates(c.locationInput.normalized).lat
            /\ c.outcome.location.lon = parseCoordinates(c.locationInput.normalized).lon
  /\ c.outcome.kind = "threw" => c.outcome.error.arg \in {<<>>, c.locationInput.value}

\* C13: two calls on one instance share no mutable state: the key is never
\* written, a step of one call leaves the frame of the other as it is and
\* takes the call to a state it can reach alone from its own frame and the
\* answer to its own request, and what a call returns or throws agrees
\* with its own input.
TheoremC13 ==
  /\ [](\A i \in Calls : OwnOutcome(calls[i]))
  /\ [][/\ apiKey' = apiKey
        /\ \A i \in Calls :
             calls'[i] # calls[i] =>
               /\ \A j \in Calls \ {i} : calls'[j] = calls[j]
               /\ calls'[i] \in AloneSuccessors(apiKey, calls[i])]_vars

\* the second call has returned from its second query variation while the
\* first, on another input, still awaits its second provider
WitnessC13 ==
  /\ calls # <<>>
  /\ calls[1].input = InCoords
  /\ calls[1].pc = "rev_openmeteo"
  /\ calls[2].input = InCity
  /\ calls[2].qi = 2
  /\ calls[2].outcome.kind = "returned"
  /\ calls[2].outcome.location.name = <<"T", "o", "k", "y", "o", ",", " ", "J", "a", "p", "a", "n">>

\* the latest answer carried at least one candidate
HitAnswer == lastAnswer.kind = "ok" /\ lastAnswer.hits > 0

\* the request of the Open-Meteo fallback of the postal chain
ZipFallbackRequest == Request("open-meteo", "search-name", locationInput.normalized)

\* the step taken when ZipCodeBase answers: a hit whose best candidate names
\* its country is returned; otherwise (an empty answer, any failure, a best
\* candidate without country_code) nothing is thrown and the fallback
\* request is sent
ZipPrimaryStep ==
  (pc = "zip_primary" /\ pc' # pc) =>
    IF HitAnswer' /\ ~lastAnswer'.uncoded
      THEN pc' = "returned" /\ requests' = requests
      ELSE /\ pc' = "zip_fallback"
           /\ outcome' = Pending
           /\ requests' = Append(requests, ZipFallbackRequest)

\* the step taken when the fallback answers: no further request, and the
\* call returns exactly when the fallback had a hit
ZipFallbackStep ==
  (pc = "zip_fallback" /\ pc' # pc) =>
    /\ requests' = requests
    /\ pc' \in {"returned", "threw"}
    /\ (pc' = "returned") = HitAnswer'
    /\ pc' = "threw" =>
         \/ outcome'.error = LocationNotFoundError(locationInput.value)
         \/ outcome'.error = TypeError
         \/ /\ outcome'.error.message # <<>>
            /\ outcome'.error.message[1] = "Geocoding service error: "

\* C21: with a key, an empty answer or any failure of ZipCodeBase (404, 401,
\* 429, timeout, malformed) is not thrown to the caller: the Open-Meteo
\* fallback is then queried, exactly once, and its answer decides whether
\* the resolution returns or fails.
TheoremC21 ==
  /\ []((chain = "zipcode" /\ apiKey # <<>>) =>
          /\ Len(requests) <= 2
          /\ Cardinality({k \in DOMAIN requests : requests[k] = ZipFallbackRequest}) <= 1
          /\ Len(requests) = 2 => requests[2] = ZipFallbackRequest
          /\ pc = "threw" => (Len(requests) = 2 /\ ~HitAnswer))
  /\ [][ZipPrimaryStep /\ ZipFallbackStep]_vars

\* ZipCodeBase answered 401 and the fallback request is outstanding
WitnessC21 ==
  /\ apiKey # <<>>
  /\ pc = "zip_fallback"
  /\ lastAnswer.kind = "error"
  /\ lastAnswer.status = 401
  /\ Len(requests) = 2
  /\ requests[1].provider = "zipcodebase"
  /\ requests[2] = ZipFallbackRequest
  /\ outcome = Pending

\* the requests sent and not answered yet
Outstanding == Len(requests) - answered

\* the position of a request among the strategies of the chain it is sent in
StrategyRank(request) ==
  IF request.op \in {"reverse", "search-codes"} THEN 1
  ELSE IF request.op = "search-coords" THEN 2
  ELSE IF request.op = "search-q" THEN 2
  ELSE IF chain = "coordinates" THEN 3
  ELSE IF chain = "zipcode" THEN 2
  ELSE 1

\* the request awaited is one whose hit the chain uses: every hit of
\* Open-Meteo, and a hit of ZipCodeBase whose best candidate names its country
\* (without country_code the strategy fails on building the location)
HitIsUsable ==
  /\ requests # <<>>
  /\ \/ requests[Len(requests)].provider = "open-meteo"
     \/ requests[Len(requests)].provider = "zipcodebase" /\ ~lastAnswer'.uncoded

\* a request is sent only by a call that has returned nothing yet, when no
\* other request is outstanding, and never in the step in which a usable hit
\* was received
SequentialStep ==
  /\ requests' # requests =>
       /\ \E request \in {requests'[Len(requests')]} : requests' = Append(requests, request)
       /\ answered' = Len(requests)
       /\ outcome = Pending /\ outcome' = Pending
  /\ (answered' # answered /\ HitIsUsable /\ HitAnswer') =>
       /\ requests' = requests
       /\ pc' = "returned"
  /\ outcome # Pending => requests' = requests

\* C22: the cascades are sequential: at most one request is outstanding, the
\* strategies of a chain are queried in their order, each after the answer
\* to the one before it, and no request follows a usable result.
TheoremC22 ==
  /\ [](/\ Outstanding \in {0, 1}
        /\ (Outstanding = 1) = (pc \in AwaitLabels)
        /\ \A j, k \in DOMAIN requests :
             j < k => \/ StrategyRank(requests[j]) < StrategyRank(requests[k])
                      \/ requests[j].op = "search-q" /\ requests[k].op = "search-q")
  /\ [][SequentialStep]_vars

\* the third strategy of the reverse chain is awaited after the two before
\* it answered without a result
WitnessC22 ==
  /\ chain = "coordinates"
  /\ pc = "rev_broad"
  /\ Len(requests) = 3
  /\ answered = 2
  /\ Outstanding = 1
  /\ lastAnswer.kind = "ok"
  /\ lastAnswer.hits = 0

\* the most requests the chain of the call can send, each strategy and each
\* distinct query variation counted once
RequestLimit ==
  IF chain = "coordinates" THEN 3
  ELSE IF chain = "zipcode" THEN 2
  ELSE 1 + Cardinality({queries[i] : i \in DOMAIN queries})

\* C23: no request is sent twice within one resolution: a coordinate
\* resolution sends at most 3 requests, a postal one at most 2, a text one at
\* most 1 plus the number of distinct query variations, and no variation
\* string is sent twice.
TheoremC23 ==
  /\ Len(requests) <= RequestLimit
  /\ \A j, k \in DOMAIN requests : j < k => requests[j] # requests[k]
  /\ \A j, k \in DOMAIN requests :
       (j < k /\ requests[j].op = "search-q" /\ requests[k].op = "search-q") =>
         requests[j].query # requests[k].query

\* "japan", whose correction repeats the query: every distinct variation was
\* sent and the call failed
WitnessC23 ==
  /\ input = InJapan
  /\ chain = "text"
  /\ pc = "threw"
  /\ Len(queries) = 6
  /\ Len(requests) = 7
  /\ requests[2].query = InJapan
  /\ requests[3].query = <<"j", "a", "p", "a", "n", " ", "c", "o", "u", "n", "t", "r", "y">>

\* the request of the variation at index k of the list
VariationRequest(k) == Request("nominatim", "search-q", queries[k])

\* the step taken when the lookup of the variation at index qi is answered
VariationStep ==
  (pc = "text_variation" /\ answered' # answered) =>
    /\ ~HitAnswer' => pc' # "returned"
    /\ pc' = "returned" =>
         /\ outcome'.location.name # UnknownLocation
         /\ requests' = requests
         /\ qi' = qi
    /\ pc' # "returned" =>
         /\ qi' = qi + 1
         /\ IF qi < Len(queries)
              THEN /\ pc' = "text_variation"
                   /\ outcome' = Pending
                   /\ requests' = Append(requests, VariationRequest(qi + 1))
              ELSE /\ pc' = "threw"
                   /\ requests' = requests

\* C24: the variations are queried in list order, one at a time; a lookup
\* that fails or finds nothing is followed by the next variation; the call
\* returns the result of the first variation whose name is not 'Unknown
\* Location', and no variation after it is queried.
TheoremC24 ==
  /\ []((chain = "text" /\ queries # <<>>) =>
          /\ \A k \in 2..Len(requests) : requests[k] = VariationRequest(k - 1)
          /\ pc = "text_variation" =>
               /\ qi = Len(requests) - 1
               /\ \A resp \in NominatimSearchResponses :
                    (/\ resp.kind = "ok"
                     /\ Len(resp.results) > 0
                     /\ FallbackBuildLocationName(resp.results[1]) # UnknownLocation) =>
                      /\ searchWithVariationsTurn(resp, queries[qi]).next = "return"
                      /\ searchWithVariationsTurn(resp, queries[qi]).location.name =
                           FallbackBuildLocationName(resp.results[1])
          /\ pc = "returned" =>
               /\ Len(requests) = qi + 1
               /\ outcome.location.name # UnknownLocation
               /\ outcome.location.resolvedBy = "geocoding")
  /\ [][VariationStep]_vars

\* "tokio": the lookups of "tokio" and "tokyo" gave nothing usable and the
\* third variation, "tokyo japan", was returned
WitnessC24 ==
  /\ input = InCity
  /\ pc = "returned"
  /\ qi = 3
  /\ Len(requests) = 4
  /\ requests[4].query = <<"t", "o", "k", "y", "o", " ", "j", "a", "p", "a", "n">>
  /\ Len(queries) > 3
  /\ outcome.location.name = <<"T", "o", "k", "y", "o", ",", " ", "J", "a", "p", "a", "n">>

\* the places of x among the corrections of the keys found in the lowercased
\* query, numbered in table order
CorrectionRanks(query, x) ==
  {10 * k + j : k \in {k \in DOMAIN corrections :
                         Includes(ToLowerCase(query), corrections[k].key)},
                j \in 1..3} \cap
  UNION {{10 * k + j : j \in {j \in DOMAIN corrections[k].values :
                                corrections[k].values[j] = x}} :
         k \in DOMAIN corrections}

\* the places of x among the query with a suffix appended, for the suffixes
\* the lowercased query does not contain
SuffixRanks(query, x) ==
  {100 + k : k \in {k \in DOMAIN suffixes :
                      /\ ~Includes(ToLowerCase(query), suffixes[k])
                      /\ x = query \o <<" ">> \o suffixes[k]}}

\* the places of x in the list before duplicates are removed; the query
\* itself stands first when it is part of the list
Ranks(query, x, withQuery) ==
  (IF withQuery /\ x = query THEN {0} ELSE {})
  \cup CorrectionRanks(query, x) \cup SuffixRanks(query, x)

FirstRank(query, x, withQuery) ==
  CHOOSE r \in Ranks(query, x, withQuery) :
    \A q \in Ranks(query, x, withQuery) : r <= q

\* the list holds the corrections of the keys found and the suffixed
\* queries (and the query itself when withQuery), each once, in the order of
\* their first place
MadeOf(list, query, withQuery) ==
  /\ \A i \in DOMAIN list : Ranks(query, list[i], withQuery) # {}
  /\ \A i, j \in DOMAIN list :
       i < j => FirstRank(query, list[i], withQuery) < FirstRank(query, list[j], withQuery)
  /\ withQuery => \E i \in DOMAIN list : list[i] = query
  /\ \A k \in DOMAIN corrections :
       Includes(ToLowerCase(query), corrections[k].key) =>
         \A j \in DOMAIN corrections[k].values :
           \E i \in DOMAIN list : list[i] = corrections[k].values[j]
  /\ \A k \in DOMAIN suffixes :
       ~Includes(ToLowerCase(query), suffixes[k]) =>
         \E i \in DOMAIN list : list[i] = query \o <<" ">> \o suffixes[k]

\* C25: the list of variations is ordered, free of duplicates and made of
\* the corrections of the keys found in the lowercased query, in table
\* order, followed by the query with each suffix it does not contain.
ClaimC25 ==
  result # <<>> => MadeOf(result[1], sample, FALSE)

\* C25, amended: the list begins with the query itself, followed by the
\* corrections of the keys found in the lowercased query, in table order,
\* followed by the query with each suffix it does not contain; an entry
\* equal to an earlier one is left out.
TheoremC25 ==
  result # <<>> =>
    /\ MadeOf(result[1], sample, TRUE)
    /\ result[1][1] = sample

\* "Japan tokio": the query first, then the corrections of tokio and of
\* japan, then the four suffixes
WitnessC25 ==
  /\ sample = <<"J", "a", "p", "a", "n", " ", "t", "o", "k", "i", "o">>
  /\ result # <<>>
  /\ Len(result[1]) = 9
  /\ result[1][1] = sample
  /\ result[1][2] = <<"t", "o", "k", "y", "o">>
  /\ result[1][4] = <<"j", "a", "p", "a", "n">>
  /\ result[1][9] = sample \o <<" ", "m", "u", "n", "i", "c", "i", "p", "a", "l", "i", "t", "y">>

\* the parts of a name joined by ', '
NameParts(name) ==
  [i \in DOMAIN SplitComma(name) |-> Trim(SplitComma(name)[i])]

\* C26: the name built from a Nominatim result never holds the same value
\* twice among its name, city, city_district, town, municipality and suburb
\* parts, whichever of these fields are equal.
ClaimC26 ==
  result # <<>> =>
    \A i, j \in DOMAIN NameParts(result[1]) :
      i < j => NameParts(result[1])[i] # NameParts(result[1])[j]

\* the latest answer came without an error and without a result
EmptyAnswer == lastAnswer.kind \in {"ok", "nobody"} /\ lastAnswer.hits = 0

\* what the broad search makes of a hit
BroadDetails(hit) ==
  Details(OrElse(hit.name, CoordString(lat, lon)),
          OrElse(hit.country, Unknown), OrElse(hit.admin1, Unknown))

\* the steps of the last two strategies of reverseGeocode: an empty answer
\* of the search by coordinates sends the broad search; the answer of the
\* broad search ends the chain, with a hit or with the echo
BroadStep ==
  /\ (pc = "rev_openmeteo" /\ answered' # answered /\ EmptyAnswer') =>
       /\ pc' = "rev_broad"
       /\ requests' = Append(requests,
            Request("open-meteo", "search-name", CoordString(lat, lon)))
       /\ outcome' = Pending
       /\ revResult' = NoReverse
  /\ (pc = "rev_broad" /\ answered' # answered) =>
       /\ pc' = "returned"
       /\ requests' = requests
       /\ revResult'.done
       /\ IF HitAnswer'
            THEN \E hit \in OpenMeteoHits : revResult'.value = BroadDetails(hit)
            ELSE revResult'.value = EchoDetails(lat, lon)

\* C27: when the search by coordinates answers without a result, the broad
\* search for the coordinate pair as a name is sent before anything is
\* returned; its first hit is returned if it has one, the echo of the
\* coordinates otherwise.
TheoremC27 ==
  /\ [](/\ (chain = "coordinates" /\ pc = "returned" /\ Len(requests) = 2) => ~EmptyAnswer
        /\ pc = "rev_broad" =>
             /\ Len(requests) = 3
             /\ \A resp \in OpenMeteoResponses :
                  (resp.kind = "ok" /\ Len(resp.results) > 0) =>
                    fallbackReverseGeocode(resp, lat, lon).value = BroadDetails(resp.results[1]))
  /\ [][BroadStep]_vars

\* the DMS pair resolved by the broad search, whose first hit is a mountain
WitnessC27 ==
  /\ input = InDms
  /\ chain = "coordinates"
  /\ pc = "returned"
  /\ Len(requests) = 3
  /\ requests[3].op = "search-name"
  /\ HitAnswer
  /\ revResult.value = Details(OMPoi.name, OMPoi.country, OMPoi.admin1)

\* the places of the candidates of the highest score
TopPlaces(results) ==
  {k \in DOMAIN results :
     \A j \in DOMAIN results :
       calculateResultScore(results[k]) >= calculateResultScore(results[j])}

\* C28: of several candidates getBestResult chooses one of the highest
\* score, and among those of the highest score the one that came first in
\* the list.
TheoremC28 ==
  result # <<>> =>
    /\ result[1].found = (Len(sample) > 0)
    /\ result[1].found =>
         \E k \in TopPlaces(sample) :
           /\ result[1].results = <<sample[k]>>
           /\ \A j \in TopPlaces(sample) : k <= j

\* three candidates of scores 8, 10 and 10: the second is chosen, not the
\* third
WitnessC28 ==
  /\ result # <<>>
  /\ Len(sample) = 3
  /\ calculateResultScore(sample[1]) = 8
  /\ calculateResultScore(sample[2]) = 10
  /\ calculateResultScore(sample[3]) = 10
  /\ sample[2] # sample[3]
  /\ result[1].results = <<sample[2]>>

\* the number x lies outside [-limit, limit] degrees
OutOfRange(x, limit) ==
  /\ x.t = "number"
  /\ (x.v > limit * Scale \/ x.v < (0 - limit) * Scale)

\* the latitude or the longitude parsed from the input is out of range
ParsedOutOfRange ==
  \/ OutOfRange(parseCoordinates(locationInput.normalized).lat, 90)
  \/ OutOfRange(parseCoordinates(locationInput.normalized).lon, 180)

\* C29: on the coordinate path the range is checked before any request: with
\* a latitude or longitude out of range the resolution fails and no request
\* was sent to Nominatim or Open-Meteo; a request is sent only for a pair
\* that is not out of range.
TheoremC29 ==
  chain = "coordinates" =>
    /\ ParsedOutOfRange =>
         /\ requests = <<>>
         /\ answered = 0
         /\ pc \in {"start", "threw", "responded"}
         /\ pc # "start" => outcome = Outcome("threw", NoLocation, InvalidCoordinatesError)
    /\ requests # <<>> => ~ParsedOutOfRange

\* "10;181": the longitude is out of range, the call failed and was answered
\* without a request
WitnessC29 ==
  /\ input = InLonHigh
  /\ chain = "coordinates"
  /\ ParsedOutOfRange
  /\ pc = "responded"
  /\ outcome.kind = "threw"
  /\ requests = <<>>
  /\ httpStatus # 0

\* the record the route builds from what it holds
SearchRecord ==
  Record(search.body.location, search.location, search.start, search.end,
         search.weather, search.suggestions)

\* the location is written only by the step that ends the resolution, with
\* a location resolveLocation returned
LocationStep ==
  search'.location # search.location =>
    /\ search.pc = "resolve"
    /\ search'.pc = "weather"
    /\ \E step \in resolveLocationOutcomes(search.body.location,
                                           search.body.locationType) :
         step.next = "return" /\ step.location = search'.location

\* the weather is written only by a step of fetchWeatherData on a resolved
\* location, with the data of an answer received: a request that was
\* rejected, timed out or had a null body gives none
WeatherWritten ==
  search'.weather # search.weather =>
    /\ search.pc \in {"weather", "archive"}
    /\ search'.pc \in {"youtube", "save"}
    /\ search.location # NoLocation
    /\ search'.location = search.location
    /\ \E resp \in WeatherResponses :
         /\ resp.kind \in {"ok", "nobody"}
         /\ search'.weather =
              fetchWeatherData(search.start, search.end,
                               Append(search.weatherAnswers, resp)).data

\* the step taken when the video lookup is answered: the request never fails
\* on it, and the record is saved next with the videos or, when the lookup
\* failed, with an empty list
SuggestionStep ==
  (search.pc = "youtube" /\ search'.pc # search.pc) =>
    /\ search'.pc = "save"
    /\ search'.error = NoError
    /\ search'.location = search.location
    /\ search'.weather = search.weather
    /\ search'.youtube # "none"
    /\ search'.youtube # "ok" => search'.suggestions = <<>>

\* a record enters the store only in the save of the search route, which
\* holds a resolved location and the weather fetched, and the record is the
\* one built from them; the route goes on to its 201 answer only through
\* such a step, and the save is rejected only for a record the schema does
\* not accept or by the database
SaveStep ==
  /\ Len(search'.saved) > Len(search.saved) =>
       /\ search.pc = "save"
       /\ search'.pc = "created"
       /\ search.location # NoLocation
       /\ search.weather # NoWeather
       /\ search'.saved = <<SearchRecord>>
       /\ search.youtube # "ok" => search'.saved[1].youtubeSuggestions = <<>>
  /\ (search'.pc = "created" /\ search.pc # "created") =>
       Len(search'.saved) > Len(search.saved)
  /\ (search.pc = "save" /\ search'.pc = "failed") =>
       \/ search'.error = SaveError /\ ~recordValidates(SearchRecord)
       \/ search'.error \in DatabaseErrors /\ recordValidates(SearchRecord)

\* C30: POST /search saves a record only after the location was resolved
\* and the weather fetched; when either fails nothing is saved; a failed
\* video lookup does not stop the save, the record is saved with an empty
\* list of suggestions.
TheoremC30 ==
  /\ [](/\ Len(search.saved) <= 1
        /\ search.saved # <<>> =>
             /\ search.pc \in {"created", "responded"}
             /\ search.saved[1].queryRaw = SearchRecord.queryRaw
             /\ search.saved[1].snapshot = SearchRecord.snapshot
             /\ search.saved[1].dateRange = SearchRecord.dateRange
             /\ search.saved[1].youtubeSuggestions = SearchRecord.youtubeSuggestions
        /\ (search.location = NoLocation \/ search.weather = NoWeather) =>
             search.saved = <<>>
        /\ (search.pc = "failed" /\ search.error \notin {SaveError} \cup DatabaseErrors) =>
             (search.youtube = "none" /\ search.saved = <<>>))
  /\ [][LocationStep /\ WeatherWritten /\ SuggestionStep /\ SaveStep]_vars

\* the video lookup timed out and the record was saved with no suggestions
WitnessC30 ==
  /\ search # <<>>
  /\ search.pc = "responded"
  /\ search.status = 201
  /\ search.youtube = "timeout"
  /\ Len(search.saved) = 1
  /\ search.saved[1].youtubeSuggestions = <<>>
  /\ search.saved[1].location.name = OMCity.name
  /\ search.saved[1].snapshot = WeatherData("null", "data")
  /\ search.saved[1].dateRange.start = DateMarch
  /\ search.saved[1].location = search.location

=============================================================================
